---------------------------- MODULE Spec2Model ----------------------------
(***************************************************************************)
(* A model of docmap-tools: the HTML to JATS-like XML conversion of        *)
(* docmaptools/convert.py and the docmap extraction and orchestration of   *)
(* docmaptools/parse.py.                                                   *)
(*                                                                         *)
(* Python values are modelled as follows.                                  *)
(*   - An xml.etree Element is a record [id, tag, attrib, text, tail,      *)
(*     kids].  id stands for the identity of the Python object (remove()   *)
(*     and the parent map of ElementPath work by identity); the parser     *)
(*     numbers elements in document order, the root being 0.               *)
(*   - A str is a sequence of one-character strings.  The parser never     *)
(*     produces an empty text or tail: it leaves None, and every test the  *)
(*     code makes on a text is a truth test, so None is the empty          *)
(*     sequence.                                                           *)
(*   - attrib is a function from attribute names to values.                *)
(***************************************************************************)
EXTENDS Integers, Sequences, FiniteSets, TLC

(***************************************************************************)
(* Bounds of the model.                                                    *)
(***************************************************************************)
\* top-level children of the input trees of SpecShape
MaxTopShape == 3
\* top-level children of the input trees of SpecQuote
MaxTopQuote == 5
\* top-level children of the input trees of SpecLink
MaxTopLink == 2

\* the number of top-level elements of a tree with images
MaxTopImage == 2

\* the number of top-level elements of a tree with the tags replace_tags renames
MaxTopRename == 2

\* the number of pieces of markup in an input of html_string_to_element
MaxBlocks == 2
\* content items of a batch
MaxItems == 3
\* actions of the first step of a docmap
MaxActions == 2
\* outputs of an action
MaxOutputs == 2

\* the number of steps of a docmap whose chain is walked
MaxSteps == 3

(***************************************************************************)
(* Sequences, with Python's list operations (0-based indices in Python,    *)
(* 1-based here: Python index i is position i + 1).                        *)
(***************************************************************************)
SeqsUpTo(S, n) == UNION {[1..k -> S] : k \in 0..n}

Min(S) == CHOOSE x \in S : \A y \in S : x <= y

Max(S) == CHOOSE x \in S : \A y \in S : x >= y

\* list.insert(i, x) for i >= 0: an index past the end appends
InsertAt(s, i, x) ==
    LET j == IF i < Len(s) THEN i ELSE Len(s)
    IN  SubSeq(s, 1, j) \o <<x>> \o SubSeq(s, j + 1, Len(s))

\* the list without its element at position p
RemoveAt(s, p) == SubSeq(s, 1, p - 1) \o SubSeq(s, p + 1, Len(s))

RECURSIVE Concat(_)
\* the concatenation of a sequence of sequences
Concat(ss) == IF ss = <<>> THEN <<>> ELSE Head(ss) \o Concat(Tail(ss))

(***************************************************************************)
(* xml.etree.ElementTree.Element                                           *)
(***************************************************************************)
NoAttrib == [n \in {} |-> ""]

NoText == <<>>

\* Element(tag): a new element without attributes, text, tail or children
Element(id, tag) ==
    [id |-> id, tag |-> tag, attrib |-> NoAttrib, text |-> NoText,
     tail |-> NoText, kids |-> <<>>]

\* elem.get(key): the attribute's value, or None, which is falsy like ""
HasAttr(elem, key) == key \in DOMAIN elem.attrib

\* elem.set(key, value)
SetAttr(elem, key, value) ==
    [elem EXCEPT !.attrib =
        [n \in DOMAIN elem.attrib \cup {key} |->
            IF n = key THEN value ELSE elem.attrib[n]]]

\* del elem.attrib[key]
DelAttr(elem, key) ==
    [elem EXCEPT !.attrib = [n \in DOMAIN elem.attrib \ {key} |-> elem.attrib[n]]]

\* the position of the child that is the object `id`, 0 when there is none
PosOfId(kids, id) ==
    IF \E p \in DOMAIN kids : kids[p].id = id
    THEN Min({p \in DOMAIN kids : kids[p].id = id})
    ELSE 0

\* elem.remove(child): the first child that is that object is removed
Remove(kids, id) == RemoveAt(kids, PosOfId(kids, id))

\* elem.find(tag): the position of the first child with that tag, 0 for None
Find(kids, tag) ==
    IF \E p \in DOMAIN kids : kids[p].tag = tag
    THEN Min({p \in DOMAIN kids : kids[p].tag = tag})
    ELSE 0

RECURSIVE Descendants(_)
\* elem.iter() without elem itself, in document order
Descendants(elem) ==
    Concat([p \in DOMAIN elem.kids |-> <<elem.kids[p]>> \o Descendants(elem.kids[p])])


(***************************************************************************)
(* convert.py: replace_tags                                                *)
(***************************************************************************)
\* the name ElementTree gives the attribute xlink:href
XlinkHref == "{http://www.w3.org/1999/xlink}href"

\* if elem.get("href"): an absent href and an empty one are both falsy
HrefIsTruthy(elem) == HasAttr(elem, "href") /\ elem.attrib["href"] # ""

\* the body of the loop over the a elements
ExtLink(elem) ==
    LET renamed == [elem EXCEPT !.tag = "ext-link"]
    IN  IF HrefIsTruthy(renamed)
        THEN DelAttr(SetAttr(SetAttr(renamed, "ext-link-type", "uri"),
                             XlinkHref, renamed.attrib["href"]), "href")
        ELSE renamed

ToItalic(elem) == [elem EXCEPT !.tag = "italic"]

ToBold(elem) == [elem EXCEPT !.tag = "bold"]

ToListItem(elem) == [elem EXCEPT !.tag = "list-item"]

ToOrderList(elem) == SetAttr([elem EXCEPT !.tag = "list"], "list-type", "order")

\* a ul given the list-type of an ol
ToBulletList_order(elem) == SetAttr([elem EXCEPT !.tag = "list"], "list-type", "order")

ToBulletList(elem) == SetAttr([elem EXCEPT !.tag = "list"], "list-type", "bullet")

\* the characters str.lstrip() removes, among those the model uses
Whitespace == {" ", "\n", "\t"}

RECURSIVE LStrip(_)
\* str.lstrip()
LStrip(s) == IF s # <<>> /\ Head(s) \in Whitespace THEN LStrip(Tail(s)) ELSE s

ImageText == <<"[", "i", "m", "a", "g", "e", "]">>

\* the join without lstrip()
PlaceholderText_no_lstrip(text) ==
    IF text = NoText THEN ImageText ELSE ImageText \o <<" ">> \o text

\* " ".join([string.lstrip() for string in ["[image]", text] if string])
PlaceholderText(text) ==
    IF text = NoText THEN ImageText ELSE ImageText \o <<" ">> \o LStrip(text)

RECURSIVE ImagePlaceholders(_)
\* for parent_elem in root.findall(".//img/.."): every element with an img
\* child, the root included, once each; its text gets the placeholder and its
\* first img child is removed.  The list of parents is taken before the loop
\* changes the tree, so a parent inside a removed img is changed too, detached.
ImagePlaceholders(elem) ==
    LET img   == Find(elem.kids, "img")
        text  == IF img # 0 THEN PlaceholderText(elem.text) ELSE elem.text
        kept  == IF img # 0 THEN RemoveAt(elem.kids, img) ELSE elem.kids
    IN  [elem EXCEPT !.text = text,
                     !.kids = [p \in DOMAIN kept |-> ImagePlaceholders(kept[p])]]

\* the body of the loop over the elements found with the tag
LoopBody(tag, elem) ==
    CASE tag = "em" -> ToItalic(elem)
      [] tag = "strong" -> ToBold(elem)
      [] tag = "a" -> ExtLink(elem)
      [] tag = "li" -> ToListItem(elem)
      [] tag = "ol" -> ToOrderList(elem)
      [] tag = "ul" -> ToBulletList(elem)

RECURSIVE ForEachDescendant(_, _)
\* for elem in root.findall(".//" + tag): the loop's body is applied to every
\* descendant with the tag; the root itself is not among its descendants
ForEachDescendant(root, tag) ==
    [root EXCEPT !.kids =
        [p \in DOMAIN root.kids |->
            LET kid == ForEachDescendant(root.kids[p], tag)
            IN  IF kid.tag = tag THEN LoopBody(tag, kid) ELSE kid]]

replace_tags(root) ==
    LET em     == ForEachDescendant(root, "em")
        strong == ForEachDescendant(em, "strong")
        a      == ForEachDescendant(strong, "a")
        img    == ImagePlaceholders(a)
        li     == ForEachDescendant(img, "li")
        ol     == ForEachDescendant(li, "ol")
    IN  ForEachDescendant(ol, "ul")

(***************************************************************************)
(* convert.py: blockquote_tags, article_title_tag, front_stub_tag, body_tag *)
(***************************************************************************)
\* prev_elem = None
NoElem == -1

\* the identity of the element front_stub_tag creates
FrontStubId == -2

\* the identity of the element body_tag creates
BodyId == -3

\* parent.append(elem), for the child of the list that is the object parent
AppendTo(kids, parent, elems) ==
    [kids EXCEPT ![PosOfId(kids, parent)].kids = @ \o elems]

RECURSIVE BlockquoteLoop(_, _, _)
\* the loop of blockquote_tags over the children found before it started:
\* kids are the root's children as changed so far, prev is prev_elem
BlockquoteLoop(todo, kids, prev) ==
    IF todo = <<>> THEN kids
    ELSE LET elem == Head(todo)
             pos  == PosOfId(kids, elem.id)
         IN  IF elem.tag = "blockquote"
             THEN IF prev = NoElem \/ kids[PosOfId(kids, prev)].tag # "disp-quote"
                  THEN BlockquoteLoop(Tail(todo),
                           [kids EXCEPT ![pos] =
                               SetAttr([@ EXCEPT !.tag = "disp-quote"],
                                       "content-type", "editor-comment")],
                           elem.id)
                  ELSE BlockquoteLoop(Tail(todo),
                           Remove(AppendTo(kids, prev, elem.kids), elem.id),
                           prev)
             ELSE BlockquoteLoop(Tail(todo), kids, elem.id)

\* a blockquote_tags that renames every top-level blockquote and merges none
blockquote_tags_no_merge(root) ==
    [root EXCEPT !.kids =
        [p \in DOMAIN root.kids |->
            IF root.kids[p].tag = "blockquote"
            THEN SetAttr([root.kids[p] EXCEPT !.tag = "disp-quote"],
                         "content-type", "editor-comment")
            ELSE root.kids[p]]]

\* a blockquote_tags that also renames the blockquotes it finds among the
\* children of the top-level elements
blockquote_tags_nested(root) ==
    LET kids == BlockquoteLoop(root.kids, root.kids, NoElem)
    IN  [root EXCEPT !.kids =
            [p \in DOMAIN kids |->
                [kids[p] EXCEPT !.kids =
                    [q \in DOMAIN kids[p].kids |->
                        IF kids[p].kids[q].tag = "blockquote"
                        THEN [kids[p].kids[q] EXCEPT !.tag = "disp-quote"]
                        ELSE kids[p].kids[q]]]]]

blockquote_tags(root) ==
    [root EXCEPT !.kids = BlockquoteLoop(root.kids, root.kids, NoElem)]

\* "if elem": an Element is true when it has children (and is not None)
ElemIsTruthy(kids, pos) == pos # 0 /\ Len(kids[pos].kids) # 0

\* an article_title_tag that looks at the first top-level child instead of
\* the first p
article_title_tag_first_child(root) ==
    IF /\ root.kids # <<>>
       /\ root.kids[1].tag = "p"
       /\ root.kids[1].kids # <<>>
       /\ root.kids[1].text = NoText
       /\ root.kids[1].kids[1].tag = "bold"
    THEN [root EXCEPT !.kids[1].tag = "title-group",
                      !.kids[1].kids[1].tag = "article-title"]
    ELSE root

article_title_tag(root) ==
    LET pos == Find(root.kids, "p")
    IN  IF ElemIsTruthy(root.kids, pos) /\ root.kids[pos].text = NoText
           /\ root.kids[pos].kids[1].tag = "bold"
        THEN [root EXCEPT !.kids[pos].tag = "title-group",
                          !.kids[pos].kids[1].tag = "article-title"]
        ELSE root

front_stub_tag(root) ==
    LET pos == Find(root.kids, "title-group")
    IN  IF pos = 0 THEN root
        ELSE LET title_group_elem == root.kids[pos]
                 insert_index     == 1
                 front_stub_elem  ==
                     [Element(FrontStubId, "front-stub") EXCEPT
                         !.kids = <<title_group_elem>>]
             IN  [root EXCEPT !.kids =
                     Remove(InsertAt(root.kids, insert_index, front_stub_elem),
                            title_group_elem.id)]

RECURSIVE BodyLoop(_, _)
\* the loop of body_tag over the children found after the body was inserted
BodyLoop(todo, kids) ==
    IF todo = <<>> THEN kids
    ELSE LET elem == Head(todo)
         IN  IF elem.tag \in {"body", "front-stub"}
             THEN BodyLoop(Tail(todo), kids)
             ELSE BodyLoop(Tail(todo),
                           Remove(AppendTo(kids, BodyId, <<elem>>), elem.id))

body_tag(root) ==
    LET insert_index == IF Find(root.kids, "front-stub") # 0 THEN 1 ELSE 0
        inserted     == InsertAt(root.kids, insert_index, Element(BodyId, "body"))
    IN  [root EXCEPT !.kids = BodyLoop(inserted, inserted)]

\* the passes of html_to_xml, in the order it calls them
Passes == <<"replace_tags", "blockquote_tags", "article_title_tag",
            "front_stub_tag", "body_tag">>

html_to_xml(root) ==
    body_tag(front_stub_tag(article_title_tag(blockquote_tags(replace_tags(root)))))

(***************************************************************************)
(* Markup text.  A bytes or str value holding markup is a sequence of      *)
(* tokens, each the text of one tag or one character:                      *)
(*   [k |-> "start", tag, attrib]   <tag ...>                              *)
(*   [k |-> "empty", tag, attrib]   <tag ... />                            *)
(*   [k |-> "end", tag]             </tag>                                 *)
(*   [k |-> "char", c]              one character of text                  *)
(*   [k |-> "byte"]                 a byte that is no valid UTF-8          *)
(***************************************************************************)
StartTag(tag, attrib) == [k |-> "start", tag |-> tag, attrib |-> attrib]

EmptyTag(tag, attrib) == [k |-> "empty", tag |-> tag, attrib |-> attrib]

EndTag(tag) == [k |-> "end", tag |-> tag]

Char(c) == [k |-> "char", c |-> c]

BadByte == [k |-> "byte"]

Chars(text) == [p \in DOMAIN text |-> Char(text[p])]

\* bytes.decode("utf-8") raises UnicodeDecodeError
DecodeFails(bytes_string) == \E p \in DOMAIN bytes_string : bytes_string[p].k = "byte"

(***************************************************************************)
(* ElementTree.fromstring: a strict parse.  The state of the parse is the  *)
(* stack of open elements, the number of elements started, the closed      *)
(* document element, and whether the text was rejected (ParseError).       *)
(***************************************************************************)
\* character data: the text of the open element, or the tail of its last child
AddChar(elem, c) ==
    IF elem.kids = <<>>
    THEN [elem EXCEPT !.text = Append(@, c)]
    ELSE [elem EXCEPT !.kids[Len(elem.kids)].tail = Append(@, c)]

\* the end of an element: it becomes the last child of the element below it
CloseTop(st) ==
    LET n    == Len(st.stack)
        elem == st.stack[n]
    IN  IF n = 1
        THEN [st EXCEPT !.stack = <<>>, !.root = <<elem>>]
        ELSE [st EXCEPT !.stack =
                 [SubSeq(st.stack, 1, n - 1) EXCEPT ![n - 1].kids = Append(@, elem)]]

OpenElem(st, tok) ==
    [st EXCEPT !.stack = Append(@, [Element(st.n, tok.tag) EXCEPT !.attrib = tok.attrib]),
               !.n = @ + 1]

ParseToken(st, tok) ==
    IF st.err THEN st
    ELSE IF st.root # <<>>
    THEN IF tok.k = "char" /\ tok.c \in Whitespace
         THEN st
         ELSE [st EXCEPT !.err = TRUE]               \* junk after document element
    ELSE CASE tok.k = "start" -> OpenElem(st, tok)
           [] tok.k = "empty" -> CloseTop(OpenElem(st, tok))
           [] tok.k = "end" ->
                IF st.stack # <<>> /\ st.stack[Len(st.stack)].tag = tok.tag
                THEN CloseTop(st)
                ELSE [st EXCEPT !.err = TRUE]        \* mismatched tag
           [] tok.k = "char" ->
                IF st.stack # <<>>
                THEN [st EXCEPT !.stack[Len(st.stack)] = AddChar(@, tok.c)]
                ELSE [st EXCEPT !.err = TRUE]        \* syntax error
           [] OTHER -> [st EXCEPT !.err = TRUE]

RECURSIVE ParseLoop(_, _)
ParseLoop(st, string) ==
    IF string = <<>> THEN st ELSE ParseLoop(ParseToken(st, Head(string)), Tail(string))

\* [ok |-> FALSE] for ParseError, else the root element
fromstring(string) ==
    LET st == ParseLoop([stack |-> <<>>, n |-> 0, root |-> <<>>, err |-> FALSE], string)
    IN  IF st.err \/ st.root = <<>>                  \* no element found, or unclosed
        THEN [ok |-> FALSE]
        ELSE [ok |-> TRUE, root |-> st.root[1]]

RECURSIVE tostring(_)
\* ElementTree.tostring: an element without text and children is written
\* as an empty tag; the tail follows the element
tostring(elem) ==
    (IF elem.text = NoText /\ elem.kids = <<>>
     THEN <<EmptyTag(elem.tag, elem.attrib)>>
     ELSE <<StartTag(elem.tag, elem.attrib)>> \o Chars(elem.text)
          \o Concat([p \in DOMAIN elem.kids |-> tostring(elem.kids[p])])
          \o <<EndTag(elem.tag)>>)
    \o Chars(elem.tail)

(***************************************************************************)
(* convert.py: repair.  The two regular expressions are matched on the     *)
(* text the tokens spell.  "<em" and "<strong" start a start tag or an     *)
(* empty tag whose name begins with em or strong; ">" ends a tag (the      *)
(* characters of the model's texts hold no ">"); "." is any character but  *)
(* a newline.                                                              *)
(***************************************************************************)
\* string.replace("<br>", "<br/>")
ReplaceBr(string) ==
    [p \in DOMAIN string |->
        IF string[p] = StartTag("br", NoAttrib) THEN EmptyTag("br", NoAttrib)
        ELSE string[p]]

\* the tag names of the model that begin with "em", and with "strong"
EmTags == {"em"}

StrongTags == {"strong"}

IsTag(tok) == tok.k \in {"start", "empty", "end"}

Opens(tok, tags) == tok.k \in {"start", "empty"} /\ tok.tag \in tags

\* <(A.*?)><(B.*?)>(.*?</a></b>) matched at token i: the lazy groups take the
\* first B tag that follows a tag, then the first pair of end tags after it
OrderMatch(string, i, A, B, a, b) ==
    LET js == {j \in (i + 1)..Len(string) :
                  Opens(string[j], B) /\ IsTag(string[j - 1])}
        j  == Min(js)
        ks == {k \in (j + 1)..(Len(string) - 1) :
                  string[k] = EndTag(a) /\ string[k + 1] = EndTag(b)}
        k  == Min(ks)
    IN  IF /\ Opens(string[i], A)
           /\ js # {}
           /\ ks # {}
           /\ \A m \in (i + 1)..(k - 1) : string[m] # Char("\n")
        THEN [found |-> TRUE, j |-> j, k |-> k]
        ELSE [found |-> FALSE]

RECURSIVE OrderSub(_, _, _, _, _, _)
\* pattern.sub(r"<\2><\1>\3", string) from token `from` on: the leftmost match
\* is rewritten (its B tag moves in front of its A tag) and the search goes on
\* after the match
OrderSub(string, from, A, B, a, b) ==
    LET starts == {i \in from..Len(string) : OrderMatch(string, i, A, B, a, b).found}
    IN  IF starts = {} THEN string
        ELSE LET i == Min(starts)
                 m == OrderMatch(string, i, A, B, a, b)
             IN  OrderSub(SubSeq(string, 1, i - 1) \o <<string[m.j]>>
                              \o SubSeq(string, i, m.j - 1)
                              \o SubSeq(string, m.j + 1, Len(string)),
                          m.k + 2, A, B, a, b)

repair(string) ==
    LET br        == ReplaceBr(string)
        em_strong == OrderSub(br, 1, EmTags, StrongTags, "em", "strong")
    IN  OrderSub(em_strong, 1, StrongTags, EmTags, "strong", "em")

(***************************************************************************)
(* convert.py: html_string_to_element, convert_html_string.  A call ends   *)
(* with a value or with an exception: [exc |-> "None", ...] or             *)
(* [exc |-> the exception's class].                                        *)
(***************************************************************************)
Raised(exc) == [exc |-> exc]

Wrap(string) == <<StartTag("root", NoAttrib)>> \o string \o <<EndTag("root")>>

html_string_to_element(bytes_string) ==
    IF DecodeFails(bytes_string) THEN Raised("UnicodeDecodeError")
    ELSE LET string == Wrap(bytes_string)
             strict == fromstring(string)
             again  == fromstring(repair(string))
         IN  IF strict.ok THEN [exc |-> "None", root |-> strict.root]
             ELSE IF again.ok THEN [exc |-> "None", root |-> again.root]
             ELSE Raised("ParseError")

convert_html_string(bytes_string) ==
    LET parsed == html_string_to_element(bytes_string)
    IN  IF parsed.exc # "None" THEN parsed
        ELSE [exc |-> "None", xml_string |-> tostring(html_to_xml(parsed.root))]

(***************************************************************************)
(* parse.py.  A dict is a function from its keys to its values and a list  *)
(* a sequence.  The other values are tagged: None, a str, the empty dict   *)
(* (the default of content.get("url", {})), and bytes holding markup.      *)
(***************************************************************************)
PyNone == [t |-> "None"]

Str(s) == [t |-> "str", v |-> s]

EmptyDict == [t |-> "dict"]

Bytes(b) == [t |-> "bytes", v |-> b]

\* a list where None may stand in its place
List(l) == [t |-> "list", v |-> l]

\* dict.get(key)
Get(d, key) == IF key \in DOMAIN d THEN d[key] ELSE PyNone

\* dict.get(key, [])
GetList(d, key) == IF key \in DOMAIN d THEN d[key] ELSE <<>>

\* the truth value of "if value:"
Truthy(value) ==
    CASE value.t = "None" -> FALSE
      [] value.t = "str" -> value.v # ""
      [] value.t = "bytes" -> value.v # <<>>
      [] value.t = "dict" -> FALSE

\* d[key] = value
Put(d, key, value) ==
    [n \in DOMAIN d \cup {key} |-> IF n = key THEN value ELSE d[n]]

\* a call's normal end with a value
Returned(value) == [exc |-> "None", value |-> value]

\* the web-content list of output_content: content.get("url", {}) for every
\* content whose type is "web-content"
WebContentUrls(contents) ==
    LET urls == [p \in DOMAIN contents |->
                    IF "url" \in DOMAIN contents[p] THEN contents[p]["url"] ELSE EmptyDict]
        IsWebContent(p) == Get(contents[p], "type") = Str("web-content")
        RECURSIVE Keep(_)
        Keep(p) == IF p > Len(contents) THEN <<>>
                   ELSE (IF IsWebContent(p) THEN <<urls[p]>> ELSE <<>>) \o Keep(p + 1)
    IN  Keep(1)

output_content(output_json) ==
    LET web_content == WebContentUrls(GetList(output_json, "content"))
    IN  [n \in {"type", "published", "web-content"} |->
            CASE n = "type" -> Get(output_json, "type")
              [] n = "published" -> Get(output_json, "published")
              [] n = "web-content" ->
                    IF Len(web_content) >= 1 THEN web_content[1] ELSE PyNone]

\* action_content taking the last output of the action instead of the first
action_content_last_output(action_json) ==
    IF "outputs" \notin DOMAIN action_json THEN Raised("TypeError")
    ELSE IF action_json["outputs"] = <<>> THEN Raised("IndexError")
    ELSE Returned(output_content(action_json["outputs"][Len(action_json["outputs"])]))

\* outputs[0] of a missing outputs list is a TypeError, of an empty one an IndexError
action_content(action_json) ==
    IF "outputs" \notin DOMAIN action_json THEN Raised("TypeError")
    ELSE IF action_json["outputs"] = <<>> THEN Raised("IndexError")
    ELSE Returned(output_content(action_json["outputs"][1]))

\* docmap_steps(d_json).get(first_step_index): None has no get
docmap_first_step(d_json) ==
    IF "steps" \notin DOMAIN d_json THEN Raised("AttributeError")
    ELSE IF "first-step" \in DOMAIN d_json
            /\ d_json["first-step"] \in DOMAIN d_json["steps"]
         THEN Returned(d_json["steps"][d_json["first-step"]])
         ELSE Returned(PyNone)

RECURSIVE ContentLoop_skip_empty(_, _)
\* the loop passing over an action without outputs instead of raising
ContentLoop_skip_empty(actions, content) ==
    IF actions = <<>> THEN Returned(content)
    ELSE LET item == action_content(Head(actions))
         IN  IF item.exc = "IndexError"
             THEN ContentLoop_skip_empty(Tail(actions), content)
             ELSE IF item.exc # "None" THEN item
             ELSE ContentLoop_skip_empty(Tail(actions), Append(content, item.value))

RECURSIVE ContentLoop(_, _)
\* the loop of docmap_content over the actions: the first exception ends it
ContentLoop(actions, content) ==
    IF actions = <<>> THEN Returned(content)
    ELSE LET item == action_content(Head(actions))
         IN  IF item.exc # "None" THEN item
             ELSE ContentLoop(Tail(actions), Append(content, item.value))

docmap_content(d_json) ==
    LET step == docmap_first_step(d_json)
    IN  IF step.exc # "None" THEN step
        ELSE IF step.value = PyNone THEN Raised("AttributeError")
        ELSE IF "actions" \notin DOMAIN step.value THEN Raised("TypeError")
        ELSE ContentLoop(step.value["actions"], <<>>)

\* step_inputs(step_json): None has no get
step_inputs(step_json) ==
    IF step_json = PyNone THEN Raised("AttributeError")
    ELSE IF "inputs" \in DOMAIN step_json THEN Returned(List(step_json["inputs"]))
    ELSE Returned(PyNone)

\* step_inputs(first_step)[0]: None is not subscriptable, an empty list has
\* no first item
docmap_preprint(d_json) ==
    LET first == docmap_first_step(d_json)
        inputs == step_inputs(first.value)
    IN  IF first.exc # "None" THEN first
        ELSE IF inputs.exc # "None" THEN inputs
        ELSE IF inputs.value = PyNone THEN Raised("TypeError")
        ELSE IF inputs.value.v = <<>> THEN Raised("IndexError")
        ELSE Returned(inputs.value.v[1])

(***************************************************************************)
(* The step walker and the preprint history, which the tests call          *)
(* (parse.next_step, parse.docmap_preprint_history) and src/ does not      *)
(* hold: modelled from sections 4.3 and 4.4 of the specification.          *)
(***************************************************************************)
\* next_step(doc, step): steps[step.nextStepId], or None if absent
next_step(d_json, step_json) ==
    IF "next-step" \in DOMAIN step_json
        /\ step_json["next-step"] \in DOMAIN d_json["steps"]
    THEN d_json["steps"][step_json["next-step"]]
    ELSE PyNone

\* the assertions of the step whose item.type is "preprint", in order
PreprintAssertions(step_json) ==
    LET assertions == GetList(step_json, "assertions")
        RECURSIVE Keep(_)
        Keep(p) == IF p > Len(assertions) THEN <<>>
                   ELSE (IF "item" \in DOMAIN assertions[p]
                            /\ Get(assertions[p]["item"], "type") = Str("preprint")
                         THEN <<assertions[p]>> ELSE <<>>) \o Keep(p + 1)
    IN  Keep(1)

\* the published values of the outputs of the step's actions, in order
PublishedOutputs(step_json) ==
    LET actions == GetList(step_json, "actions")
        RECURSIVE OfAction(_, _)
        OfAction(outputs, p) ==
            IF p > Len(outputs) THEN <<>>
            ELSE (IF "published" \in DOMAIN outputs[p]
                  THEN <<outputs[p]["published"]>> ELSE <<>>) \o OfAction(outputs, p + 1)
        RECURSIVE OfActions(_)
        OfActions(a) ==
            IF a > Len(actions) THEN <<>>
            ELSE OfAction(GetList(actions[a], "outputs"), 1) \o OfActions(a + 1)
    IN  OfActions(1)

\* the date of the event: the assertion's happened if present, else the
\* output's published in the same step, else "TBC"
PreprintDate(step_json) ==
    LET assertion == PreprintAssertions(step_json)[1]
        published == PublishedOutputs(step_json)
    IN  IF "happened" \in DOMAIN assertion THEN assertion["happened"]
        ELSE IF published # <<>> THEN published[1]
        ELSE Str("TBC")

\* every event given the type "preprint"
PreprintEvents_all_preprint(step_json, found_first_preprint) ==
    IF PreprintAssertions(step_json) = <<>> THEN <<>>
    ELSE LET item == PreprintAssertions(step_json)[1]["item"]
         IN  <<[type |-> Str("preprint"),
                doi |-> Get(item, "doi"),
                versionIdentifier |-> Get(item, "versionIdentifier"),
                date |-> PreprintDate(step_json)]>>

\* the events of the step: one PreprintEvent if its assertions include a
\* preprint item, "preprint" for the first event of all and
\* "reviewed-preprint" for every later one
PreprintEvents(step_json, found_first_preprint) ==
    IF PreprintAssertions(step_json) = <<>> THEN <<>>
    ELSE LET item == PreprintAssertions(step_json)[1]["item"]
         IN  <<[type |-> IF found_first_preprint THEN Str("reviewed-preprint")
                         ELSE Str("preprint"),
                doi |-> Get(item, "doi"),
                versionIdentifier |-> Get(item, "versionIdentifier"),
                date |-> PreprintDate(step_json)]>>

(***************************************************************************)
(* The state.                                                              *)
(*   html_to_xml:  root is the tree the passes rewrite in place, parsed    *)
(*     the tree as html_string_to_element returned it, before the tree     *)
(*     before the latest pass, and passes the number of passes applied.    *)
(*   populate_docmap_content then transform_docmap_content:  content_json  *)
(*     is the list both work on, call the function running ("populate",    *)
(*     "transform", then "returned" or "raised"), raised_in the function   *)
(*     that raised, idx the position of the loop's next item, exc the      *)
(*     exception that left the call, log the records written to LOGGER.    *)
(*   docmap_content:  d_json is the docmap and content the call's outcome  *)
(*     (<<>> before the call, then <<outcome>>).                           *)
(*   populate_docmap_content:  fetched is the list of the calls of         *)
(*     requests.get, each the position of its item and what it gave.       *)
(*   docmap_first_step, docmap_preprint:  first_step and preprint are      *)
(*     the outcomes of the two calls on d_json (<<>> before the call).     *)
(*   the walk over the steps:  walk is its position ("start", "walking",   *)
(*     then "done" or the error that ended it), walk_step the step last    *)
(*     yielded, visited the ids yielded so far, history the events of      *)
(*     the preprint history collected from them.                           *)
(*   html_string_to_element:  bytes_string is its argument, pc the         *)
(*     statement to run next ("decode", "strict" for the first             *)
(*     fromstring, "except" for the handler of ParseError, then            *)
(*     "returned" or "raised"), attempts the strings passed to             *)
(*     fromstring so far, outcome the call's outcome (<<>> before its      *)
(*     end).                                                               *)
(***************************************************************************)
VARIABLES root, parsed, before, passes,
          content_json, call, raised_in, idx, exc, log, fetched,
          d_json, content,
          first_step, preprint, walk, walk_step, visited, history,
          bytes_string, pc, attempts, outcome

tree_vars == <<root, parsed, before, passes>>

batch_vars == <<content_json, call, raised_in, idx, exc, log, fetched>>

docmap_vars == <<d_json, content>>

steps_vars == <<first_step, preprint, walk, walk_step, visited, history>>

parse_vars == <<bytes_string, pc, attempts, outcome>>

vars == <<root, parsed, before, passes,
          content_json, call, raised_in, idx, exc, log, fetched,
          d_json, content,
          first_step, preprint, walk, walk_step, visited, history,
          bytes_string, pc, attempts, outcome>>

(***************************************************************************)
(* Input trees.  A tree is given by the markup of its top-level elements   *)
(* and parsed, so that it is a tree the parser returns.                    *)
(***************************************************************************)
\* the markup of an element
Markup(tag, attrib, text, kids, tail) ==
    <<StartTag(tag, attrib)>> \o Chars(text) \o Concat(kids) \o <<EndTag(tag)>>
        \o Chars(tail)

Leaf(tag) == Markup(tag, NoAttrib, NoText, <<>>, NoText)

\* the tree parsed from the markup of a sequence of top-level elements
TreeOf(tops) == fromstring(Wrap(Concat(tops))).root

\* the trees with at most max top-level elements drawn from the set
TreesOver(elements, max) == {TreeOf(tops) : tops \in SeqsUpTo(elements, max)}

\* paragraphs with and without leading text, without children, with a strong
\* first child, and with a strong child that is not the first
Paragraphs ==
    {Markup("p", NoAttrib, text, kids, NoText) :
        text \in {NoText, <<"t">>},
        kids \in {<<>>,
                  <<Markup("strong", NoAttrib, <<"T">>, <<>>, NoText)>>,
                  <<Leaf("em"), Markup("strong", NoAttrib, <<"T">>, <<>>, NoText)>>}}

\* top-level elements for the shape of the result: paragraphs, a list, and
\* elements that already carry the names the passes create
ShapeElements ==
    Paragraphs \cup
    {Leaf("ul"), Leaf("body"), Leaf("front-stub"), Leaf("title-group"),
     Markup("body", NoAttrib, NoText, <<Markup("p", NoAttrib, <<"t">>, <<>>, NoText)>>, NoText)}

\* top-level elements for blockquote_tags: blockquotes without and with
\* children, text and tail, a paragraph, and disp-quote elements
QuoteElements ==
    {Leaf("blockquote"),
     Markup("blockquote", NoAttrib, NoText, <<Leaf("p")>>, NoText),
     Markup("blockquote", NoAttrib, <<"q">>, <<Leaf("p"), Leaf("blockquote")>>, <<"u">>),
     Leaf("p"),
     Markup("disp-quote", NoAttrib, NoText, <<Leaf("p")>>, NoText)}

HrefAttrib(value) == [n \in {"href"} |-> value]

\* a elements without href, with an empty href and with an href
Links ==
    {Markup("a", attrib, <<"t">>, <<>>, NoText) :
        attrib \in {NoAttrib, HrefAttrib(""), HrefAttrib("http://x")}}

\* top-level elements for the links: a elements at the top level, in a
\* paragraph, and in an element of a paragraph
LinkElements ==
    Links
    \cup {Markup("p", NoAttrib, NoText, <<a>>, NoText) : a \in Links}
    \cup {Markup("p", NoAttrib, NoText,
                 <<Markup("em", NoAttrib, NoText, <<a>>, NoText), Leaf("img")>>,
                 NoText) : a \in Links}

\* top-level elements for the images: an img at the top level, whose parent
\* is the root; paragraphs with one img, without and with leading text, the
\* text with leading white space or nothing else; with two img children,
\* the first with a tail; with an img in an element; and without img
ImageElements ==
    {Leaf("img"),
     Markup("p", NoAttrib, <<"t">>, <<>>, NoText),
     Markup("p", NoAttrib, NoText,
            <<Markup("img", NoAttrib, NoText, <<>>, <<"x">>), Leaf("img")>>, NoText),
     Markup("p", NoAttrib, <<"t">>,
            <<Markup("em", NoAttrib, <<"u">>, <<Leaf("img")>>, NoText)>>, NoText)}
    \cup {Markup("p", NoAttrib, text, <<Leaf("img")>>, NoText) :
            text \in {NoText, <<"t">>, <<" ", "t">>, <<" ">>}}

\* top-level elements for the renames: an ordered list of two items, the
\* first with text, an em and its tail; a bullet list in whose item stands
\* an ordered list, with a tail; a paragraph with a link and a strong in an
\* em; an li, an ol with a list-type of its own and an em at the top level;
\* a paragraph with an img before an em; and a paragraph without any of them
RenameElements ==
    {Markup("ol", NoAttrib, NoText,
            <<Markup("li", NoAttrib, <<"t">>,
                     <<Markup("em", NoAttrib, <<"u">>, <<>>, <<"v">>)>>, NoText),
              Leaf("li")>>, NoText),
     Markup("ul", NoAttrib, NoText,
            <<Markup("li", NoAttrib, <<"a">>,
                     <<Markup("ol", NoAttrib, NoText,
                              <<Markup("li", NoAttrib, <<"b">>, <<>>, NoText)>>,
                              <<"c">>)>>, NoText)>>, <<"w">>),
     Markup("p", NoAttrib, <<"t">>,
            <<Markup("a", HrefAttrib("http://x"), <<"l">>, <<>>, <<"u">>),
              Markup("em", NoAttrib, NoText,
                     <<Markup("strong", NoAttrib, <<"b">>, <<>>, NoText)>>, NoText)>>,
            NoText),
     Markup("li", NoAttrib, <<"t">>, <<>>, NoText),
     Markup("ol", [n \in {"list-type"} |-> "x"], NoText, <<>>, NoText),
     Leaf("em"),
     Markup("p", NoAttrib, NoText,
            <<Leaf("img"), Markup("em", NoAttrib, <<"x">>, <<>>, NoText)>>, NoText),
     Markup("p", NoAttrib, <<"t">>, <<>>, NoText)}

\* pieces of markup for the parser: an em/strong pair closed out of order,
\* of either shape; a pair closed in order, of either shape; a br without
\* close slash, alone and with an end tag; an unmatched p; a character; a
\* byte that is no UTF-8
ParseBlocks ==
    {<<StartTag("em", NoAttrib), StartTag("strong", NoAttrib), Char("a"),
       EndTag("em"), EndTag("strong")>>,
     <<StartTag("strong", NoAttrib), StartTag("em", NoAttrib), Char("a"),
       EndTag("strong"), EndTag("em")>>,
     <<StartTag("em", NoAttrib), StartTag("strong", NoAttrib), Char("a"),
       EndTag("strong"), EndTag("em")>>,
     <<StartTag("strong", NoAttrib), StartTag("em", NoAttrib), Char("a"),
       EndTag("em"), EndTag("strong")>>,
     <<StartTag("br", NoAttrib)>>,
     <<StartTag("br", NoAttrib), EndTag("br")>>,
     <<StartTag("p", NoAttrib), Char("t")>>,
     <<Char("t")>>,
     <<BadByte>>}

\* the arguments of html_string_to_element: up to MaxBlocks pieces in a row
ParseInputs == {Concat(blocks) : blocks \in SeqsUpTo(ParseBlocks, MaxBlocks)}

(***************************************************************************)
(* Input batches and responses.                                            *)
(***************************************************************************)
\* a content item as docmap_content builds it, with and without a URL
ContentItems ==
    {[n \in {"type", "published", "web-content"} |->
        CASE n = "type" -> Str("review-article")
          [] n = "published" -> Str("2022-02-15")
          [] n = "web-content" -> url] : url \in {PyNone, Str("https://x/content")}}

\* <p><strong>T</strong></p>
ValidHtml ==
    Markup("p", NoAttrib, NoText, <<Markup("strong", NoAttrib, <<"T">>, <<>>, NoText)>>,
           NoText)

\* <p>t, the unmatched tag of test_parseerror_exception
UnmatchedHtml == <<StartTag("p", NoAttrib), Char("t")>>

\* <p>t<br></p>, which parses after repair only
RepairableHtml ==
    <<StartTag("p", NoAttrib), Char("t"), StartTag("br", NoAttrib), EndTag("p")>>

\* bytes that are no UTF-8
UndecodableHtml == <<Char("t"), BadByte>>

\* what requests.get does: a response, or an exception of its own
Responses ==
    {[status_code |-> 200, content |-> Bytes(h)] :
        h \in {ValidHtml, UnmatchedHtml, RepairableHtml, UndecodableHtml, <<>>}}
    \cup {[status_code |-> code, content |-> Bytes(ValidHtml)] : code \in {404, 500}}
    \cup {Raised("ConnectionError")}

LogRecord(level, msg) == [level |-> level, msg |-> msg]

(***************************************************************************)
(* get_web_content and the try statement of transform_docmap_content.      *)
(* A call yields the exception that left it ("None" for a normal return),  *)
(* its value and the records it wrote to LOGGER.                           *)
(***************************************************************************)
\* get_web_content returning the content whatever the status code
get_web_content_any_status(response) ==
    IF "exc" \in DOMAIN response
    THEN [exc |-> response.exc, value |-> PyNone, log |-> <<>>]
    ELSE [exc |-> "None", value |-> response.content,
          log |-> <<LogRecord("INFO", "GET %s")>>]

\* get_web_content(path), requests.get(path) giving the response: an
\* exception of requests.get leaves the call before anything is logged
get_web_content(response) ==
    IF "exc" \in DOMAIN response
    THEN [exc |-> response.exc, value |-> PyNone, log |-> <<>>]
    ELSE IF response.status_code = 200
    THEN [exc |-> "None", value |-> response.content,
          log |-> <<LogRecord("INFO", "GET %s")>>]
    ELSE [exc |-> "None", value |-> PyNone,
          log |-> <<LogRecord("INFO", "GET %s"),
                    LogRecord("INFO", "Status code %s for GET %s")>>]

\* the try statement without its "except ParseError" clause
TryConvert_no_parseerror_clause(content_item) ==
    LET result == convert_html_string(Get(content_item, "html").v)
    IN  IF result.exc = "None"
        THEN [exc |-> "None",
              item |-> Put(content_item, "xml", Bytes(result.xml_string)),
              log |-> <<>>]
        ELSE [exc |-> result.exc, item |-> content_item,
              log |-> <<LogRecord("ERROR", "Unhandled exception")>>]

\* the try statement of transform_docmap_content for an item with html:
\* item is the item after it, exc the exception re-raised
TryConvert(content_item) ==
    LET result == convert_html_string(Get(content_item, "html").v)
    IN  CASE result.exc = "None" ->
                [exc |-> "None",
                 item |-> Put(content_item, "xml", Bytes(result.xml_string)),
                 log |-> <<>>]
          [] result.exc = "ParseError" ->
                [exc |-> "None", item |-> content_item,
                 log |-> <<LogRecord("ERROR", "Failed to convert HTML to XML")>>]
          [] OTHER ->
                [exc |-> result.exc, item |-> content_item,
                 log |-> <<LogRecord("ERROR", "Unhandled exception")>>]

(***************************************************************************)
(* Input docmaps: two steps, the first step being either, whose actions    *)
(* are drawn from the outputs below; the other step has one action.        *)
(***************************************************************************)
WebContent(url) == [n \in {"type", "url"} |-> IF n = "type" THEN Str("web-content") ELSE url]

\* outputs: complete, with a web-content that is not the first content and is
\* followed by another, without content, empty, and with a web-content
\* without url
Outputs ==
    {[type |-> Str("review-article"), published |-> Str("2022-02-15T09:43"),
      content |-> <<WebContent(Str("https://x/1"))>>],
     [type |-> Str("reply"), published |-> Str("2022-02-15T11:24"),
      content |-> <<[type |-> Str("computer-file"), url |-> Str("https://x/file")],
                    WebContent(Str("https://x/2")), WebContent(Str("https://x/3"))>>],
     [type |-> Str("reply"), published |-> Str("2022-02-15T11:24")],
     [n \in {} |-> PyNone],
     [type |-> Str("evaluation-summary"),
      content |-> <<[type |-> Str("web-content")], WebContent(Str("https://x/4"))>>]}

\* an output that follows the first output of an action
LaterOutput ==
    [type |-> Str("later"), published |-> Str("2023-01-01"),
     content |-> <<WebContent(Str("https://x/later"))>>]

\* the lists of outputs of an action: none, or a first output and later ones
OutputLists ==
    {<<>>} \cup {<<first>> \o rest : first \in Outputs,
                                     rest \in SeqsUpTo({LaterOutput}, MaxOutputs - 1)}

Actions == {[outputs |-> outputs] : outputs \in OutputLists}

StepIds == {"_:b0", "_:b1"}

\* the step that is not the first step
OtherStep ==
    [actions |-> <<[outputs |-> <<[type |-> Str("other-step"),
                                   published |-> Str("2024-01-01"),
                                   content |-> <<WebContent(Str("https://x/other"))>>]>>]>>]

Docmaps ==
    {[n \in {"first-step", "steps"} |->
        IF n = "first-step" THEN first
        ELSE [id \in StepIds |->
                 IF id = first
                 THEN [m \in {"actions", "next-step"} |->
                          IF m = "actions" THEN actions
                          ELSE CHOOSE other \in StepIds : other # first]
                 ELSE OtherStep]] :
        first \in StepIds, actions \in SeqsUpTo(Actions, MaxActions)}

(***************************************************************************)
(* Input docmaps for the step functions and the walk: MaxSteps steps, each *)
(* with or without a next-step, which names any step, so that chains end   *)
(* or come back to a step; each step with or without a preprint assertion. *)
(***************************************************************************)
ChainIdSeq == <<"_:b0", "_:b1", "_:b2", "_:b3", "_:b4">>

ChainIds == {ChainIdSeq[k] : k \in 1 .. MaxSteps}

\* the number of the step id
ChainPos(id) == CHOOSE k \in 1 .. MaxSteps : ChainIdSeq[k] = id

\* the preprint assertion of a step: the first step's has a happened date
ChainAssertion(id) ==
    [n \in {"status", "item"} \cup (IF ChainPos(id) = 1 THEN {"happened"} ELSE {}) |->
        CASE n = "status" -> Str("manuscript-published")
          [] n = "happened" -> Str("2023-04-27")
          [] n = "item" -> [type |-> Str("preprint"), doi |-> Str(id),
                            versionIdentifier |-> Str("1")]]

\* the actions of a step: the second step's output has a published date
ChainActions(id) ==
    IF ChainPos(id) = 2
    THEN <<[outputs |-> <<[type |-> Str("preprint"), published |-> Str("2023-02-21")]>>]>>
    ELSE <<[outputs |-> <<[type |-> Str("review-article")]>>]>>

\* a step: next is the id of its next-step or "None"; with a preprint
\* assertion it has two inputs too, without it has none
ChainStep(id, next, has_preprint) ==
    [n \in {"inputs", "assertions", "actions"}
           \cup (IF next = "None" THEN {} ELSE {"next-step"}) |->
        CASE n = "next-step" -> next
          [] n = "actions" -> ChainActions(id)
          [] n = "inputs" ->
                IF has_preprint
                THEN <<[type |-> Str("preprint"), doi |-> Str(id)],
                       [type |-> Str("preprint"), doi |-> Str("10.7554/other")]>>
                ELSE <<>>
          [] n = "assertions" ->
                IF has_preprint
                THEN <<[status |-> Str("draft"), item |-> [type |-> Str("other")]],
                       ChainAssertion(id)>>
                ELSE <<[status |-> Str("draft"), item |-> [type |-> Str("other")]]>>]

\* the docmap without keys
EmptyDocmap == [n \in {} |-> PyNone]

\* first is the first step's id, "None" for a docmap without first-step;
\* "_:b9" names no step
ChainDocmaps ==
    {[n \in {"steps"} \cup (IF first = "None" THEN {} ELSE {"first-step"}) |->
        IF n = "first-step" THEN first
        ELSE [id \in ChainIds |-> ChainStep(id, nexts[id], preprints[id])]] :
        first \in {ChainIdSeq[1], "None", "_:b9"},
        nexts \in [ChainIds -> ChainIds \cup {"None"}],
        preprints \in [ChainIds -> BOOLEAN]}
    \cup {EmptyDocmap}

(***************************************************************************)
(* Initial states: one call's inputs, the other calls being over.          *)
(***************************************************************************)
TreeInit(trees) ==
    /\ parsed \in trees
    /\ root = parsed
    /\ before = parsed
    /\ passes = 0

TreeIdle ==
    /\ parsed = TreeOf(<<>>)
    /\ root = parsed
    /\ before = parsed
    /\ passes = Len(Passes)

BatchInit ==
    /\ content_json \in SeqsUpTo(ContentItems, MaxItems)
    /\ call = "populate"
    /\ raised_in = "None"
    /\ idx = 1
    /\ exc = "None"
    /\ log = <<>>
    /\ fetched = <<>>

BatchIdle ==
    /\ content_json = <<>>
    /\ call = "returned"
    /\ raised_in = "None"
    /\ idx = 1
    /\ exc = "None"
    /\ log = <<>>
    /\ fetched = <<>>

DocmapInit ==
    /\ d_json \in Docmaps
    /\ content = <<>>

DocmapIdle ==
    /\ d_json = [n \in {} |-> PyNone]
    /\ content = <<Raised("AttributeError")>>

StepsIdle ==
    /\ first_step = <<Raised("AttributeError")>>
    /\ preprint = <<Raised("AttributeError")>>
    /\ walk = "AttributeError"
    /\ walk_step = PyNone
    /\ visited = <<>>
    /\ history = <<>>

\* docmap_first_step and docmap_preprint are to be called on the docmap
StepsInit ==
    /\ d_json \in ChainDocmaps
    /\ content = <<docmap_content(d_json)>>
    /\ first_step = <<>>
    /\ preprint = <<>>
    /\ walk = "done"
    /\ walk_step = PyNone
    /\ visited = <<>>
    /\ history = <<>>

\* the chain of the docmap is to be walked
WalkInit ==
    /\ d_json \in ChainDocmaps
    /\ content = <<docmap_content(d_json)>>
    /\ first_step = <<docmap_first_step(d_json)>>
    /\ preprint = <<docmap_preprint(d_json)>>
    /\ walk = "start"
    /\ walk_step = PyNone
    /\ visited = <<>>
    /\ history = <<>>

ParseIdle ==
    /\ bytes_string = <<>>
    /\ pc = "returned"
    /\ attempts = <<Wrap(<<>>)>>
    /\ outcome = <<[exc |-> "None", root |-> TreeOf(<<>>)]>>

\* html_string_to_element(bytes_string): entry
ParseInit ==
    /\ bytes_string \in ParseInputs
    /\ pc = "decode"
    /\ attempts = <<>>
    /\ outcome = <<>>

InitShape ==
    TreeInit(TreesOver(ShapeElements, MaxTopShape))
        /\ BatchIdle /\ DocmapIdle /\ StepsIdle /\ ParseIdle

InitQuote ==
    TreeInit(TreesOver(QuoteElements, MaxTopQuote))
        /\ BatchIdle /\ DocmapIdle /\ StepsIdle /\ ParseIdle

InitLink ==
    TreeInit(TreesOver(LinkElements, MaxTopLink))
        /\ BatchIdle /\ DocmapIdle /\ StepsIdle /\ ParseIdle

InitImage ==
    TreeInit(TreesOver(ImageElements, MaxTopImage))
        /\ BatchIdle /\ DocmapIdle /\ StepsIdle /\ ParseIdle

InitRename ==
    TreeInit(TreesOver(RenameElements, MaxTopRename))
        /\ BatchIdle /\ DocmapIdle /\ StepsIdle /\ ParseIdle

InitBatch == TreeIdle /\ BatchInit /\ DocmapIdle /\ StepsIdle /\ ParseIdle

InitDocmap == TreeIdle /\ BatchIdle /\ DocmapInit /\ StepsIdle /\ ParseIdle

InitSteps == TreeIdle /\ BatchIdle /\ StepsInit /\ ParseIdle

InitWalk == TreeIdle /\ BatchIdle /\ WalkInit /\ ParseIdle

InitParse == TreeIdle /\ BatchIdle /\ DocmapIdle /\ StepsIdle /\ ParseInit

(***************************************************************************)
(* html_to_xml: the five passes, in order.                                 *)
(***************************************************************************)
ReplaceTags ==
    /\ passes = 0
    /\ root' = replace_tags(root)
    /\ before' = root
    /\ passes' = passes + 1
    /\ UNCHANGED parsed
    /\ UNCHANGED batch_vars
    /\ UNCHANGED docmap_vars
    /\ UNCHANGED steps_vars
    /\ UNCHANGED parse_vars

BlockquoteTags ==
    /\ passes = 1
    /\ root' = blockquote_tags(root)
    /\ before' = root
    /\ passes' = passes + 1
    /\ UNCHANGED parsed
    /\ UNCHANGED batch_vars
    /\ UNCHANGED docmap_vars
    /\ UNCHANGED steps_vars
    /\ UNCHANGED parse_vars

ArticleTitleTag ==
    /\ passes = 2
    /\ root' = article_title_tag(root)
    /\ before' = root
    /\ passes' = passes + 1
    /\ UNCHANGED parsed
    /\ UNCHANGED batch_vars
    /\ UNCHANGED docmap_vars
    /\ UNCHANGED steps_vars
    /\ UNCHANGED parse_vars

FrontStubTag ==
    /\ passes = 3
    /\ root' = front_stub_tag(root)
    /\ before' = root
    /\ passes' = passes + 1
    /\ UNCHANGED parsed
    /\ UNCHANGED batch_vars
    /\ UNCHANGED docmap_vars
    /\ UNCHANGED steps_vars
    /\ UNCHANGED parse_vars

BodyTag ==
    /\ passes = 4
    /\ root' = body_tag(root)
    /\ before' = root
    /\ passes' = passes + 1
    /\ UNCHANGED parsed
    /\ UNCHANGED batch_vars
    /\ UNCHANGED docmap_vars
    /\ UNCHANGED steps_vars
    /\ UNCHANGED parse_vars

NextTree == ReplaceTags \/ BlockquoteTags \/ ArticleTitleTag \/ FrontStubTag \/ BodyTag

SpecShape == InitShape /\ [][NextTree]_vars

SpecQuote == InitQuote /\ [][NextTree]_vars

SpecLink == InitLink /\ [][NextTree]_vars

SpecImage == InitImage /\ [][NextTree]_vars

SpecRename == InitRename /\ [][NextTree]_vars

(***************************************************************************)
(* populate_docmap_content, one action per turn of its loop, and then      *)
(* transform_docmap_content on the list it returned.                       *)
(***************************************************************************)
\* the item has no web-content: nothing is fetched
PopulateSkip ==
    /\ call = "populate"
    /\ idx <= Len(content_json)
    /\ ~Truthy(Get(content_json[idx], "web-content"))
    /\ idx' = idx + 1
    /\ UNCHANGED <<content_json, call, raised_in, exc, log, fetched>>
    /\ UNCHANGED tree_vars
    /\ UNCHANGED docmap_vars
    /\ UNCHANGED steps_vars
    /\ UNCHANGED parse_vars

\* content_item["html"] = get_web_content(...): the content, or None
PopulateFetch ==
    /\ call = "populate"
    /\ idx <= Len(content_json)
    /\ Truthy(Get(content_json[idx], "web-content"))
    /\ \E response \in Responses :
          LET got == get_web_content(response)
          IN  /\ got.exc = "None"
              /\ content_json' =
                    [content_json EXCEPT ![idx] = Put(@, "html", got.value)]
              /\ log' = log \o got.log
              /\ fetched' = Append(fetched, [item |-> idx, response |-> response])
    /\ idx' = idx + 1
    /\ UNCHANGED <<call, raised_in, exc>>
    /\ UNCHANGED tree_vars
    /\ UNCHANGED docmap_vars
    /\ UNCHANGED steps_vars
    /\ UNCHANGED parse_vars

\* requests.get raises: the exception leaves populate_docmap_content
PopulateRaise ==
    /\ call = "populate"
    /\ idx <= Len(content_json)
    /\ Truthy(Get(content_json[idx], "web-content"))
    /\ \E response \in Responses :
          LET got == get_web_content(response)
          IN  /\ got.exc # "None"
              /\ exc' = got.exc
              /\ log' = log \o got.log
              /\ fetched' = Append(fetched, [item |-> idx, response |-> response])
    /\ call' = "raised"
    /\ raised_in' = "populate"
    /\ UNCHANGED <<content_json, idx>>
    /\ UNCHANGED tree_vars
    /\ UNCHANGED docmap_vars
    /\ UNCHANGED steps_vars
    /\ UNCHANGED parse_vars

\* return content_json, which the caller hands to transform_docmap_content
PopulateReturn ==
    /\ call = "populate"
    /\ idx > Len(content_json)
    /\ call' = "transform"
    /\ idx' = 1
    /\ UNCHANGED <<content_json, raised_in, exc, log, fetched>>
    /\ UNCHANGED tree_vars
    /\ UNCHANGED docmap_vars
    /\ UNCHANGED steps_vars
    /\ UNCHANGED parse_vars

\* the item has no html, or html that is None or empty: nothing is converted
TransformSkip ==
    /\ call = "transform"
    /\ idx <= Len(content_json)
    /\ ~Truthy(Get(content_json[idx], "html"))
    /\ idx' = idx + 1
    /\ UNCHANGED <<content_json, call, raised_in, exc, log, fetched>>
    /\ UNCHANGED tree_vars
    /\ UNCHANGED docmap_vars
    /\ UNCHANGED steps_vars
    /\ UNCHANGED parse_vars

\* the try statement ends without an exception: the loop goes on
TransformItem ==
    /\ call = "transform"
    /\ idx <= Len(content_json)
    /\ Truthy(Get(content_json[idx], "html"))
    /\ \E try \in {TryConvert(content_json[idx])} :
          /\ try.exc = "None"
          /\ content_json' = [content_json EXCEPT ![idx] = try.item]
          /\ log' = log \o try.log
    /\ idx' = idx + 1
    /\ UNCHANGED <<call, raised_in, exc, fetched>>
    /\ UNCHANGED tree_vars
    /\ UNCHANGED docmap_vars
    /\ UNCHANGED steps_vars
    /\ UNCHANGED parse_vars

\* the try statement re-raises: the exception leaves transform_docmap_content
TransformRaise ==
    /\ call = "transform"
    /\ idx <= Len(content_json)
    /\ Truthy(Get(content_json[idx], "html"))
    /\ \E try \in {TryConvert(content_json[idx])} :
          /\ try.exc # "None"
          /\ content_json' = [content_json EXCEPT ![idx] = try.item]
          /\ log' = log \o try.log
          /\ exc' = try.exc
    /\ call' = "raised"
    /\ raised_in' = "transform"
    /\ UNCHANGED <<idx, fetched>>
    /\ UNCHANGED tree_vars
    /\ UNCHANGED docmap_vars
    /\ UNCHANGED steps_vars
    /\ UNCHANGED parse_vars

\* return content_json
TransformReturn ==
    /\ call = "transform"
    /\ idx > Len(content_json)
    /\ call' = "returned"
    /\ UNCHANGED <<content_json, raised_in, idx, exc, log, fetched>>
    /\ UNCHANGED tree_vars
    /\ UNCHANGED docmap_vars
    /\ UNCHANGED steps_vars
    /\ UNCHANGED parse_vars

NextBatch ==
    \/ PopulateSkip
    \/ PopulateFetch
    \/ PopulateRaise
    \/ PopulateReturn
    \/ TransformSkip
    \/ TransformItem
    \/ TransformRaise
    \/ TransformReturn

SpecBatch == InitBatch /\ [][NextBatch]_vars

(***************************************************************************)
(* docmap_content(d_json).                                                 *)
(***************************************************************************)
DocmapContent ==
    /\ content = <<>>
    /\ content' = <<docmap_content(d_json)>>
    /\ UNCHANGED d_json
    /\ UNCHANGED tree_vars
    /\ UNCHANGED batch_vars
    /\ UNCHANGED steps_vars
    /\ UNCHANGED parse_vars

NextDocmap == DocmapContent

SpecDocmap == InitDocmap /\ [][NextDocmap]_vars

(***************************************************************************)
(* docmap_first_step(d_json) and docmap_preprint(d_json).                  *)
(***************************************************************************)
DocmapFirstStep ==
    /\ first_step = <<>>
    /\ first_step' = <<docmap_first_step(d_json)>>
    /\ UNCHANGED <<preprint, walk, walk_step, visited, history>>
    /\ UNCHANGED tree_vars
    /\ UNCHANGED batch_vars
    /\ UNCHANGED docmap_vars
    /\ UNCHANGED parse_vars

DocmapPreprint ==
    /\ preprint = <<>>
    /\ preprint' = <<docmap_preprint(d_json)>>
    /\ UNCHANGED <<first_step, walk, walk_step, visited, history>>
    /\ UNCHANGED tree_vars
    /\ UNCHANGED batch_vars
    /\ UNCHANGED docmap_vars
    /\ UNCHANGED parse_vars

NextSteps == DocmapFirstStep \/ DocmapPreprint

SpecSteps == InitSteps /\ [][NextSteps]_vars

(***************************************************************************)
(* The walk of the chain, a step of the chain at a time, and the preprint  *)
(* history it collects: walk is "start", "walking", then "done" or the     *)
(* error that ended it; walk_step is the step the walk is at, visited the  *)
(* ids of the steps it yielded, history the events emitted for them.       *)
(***************************************************************************)
\* the walk begins at docmap_first_step(d_json)
WalkStart ==
    /\ walk = "start"
    /\ \E first \in {docmap_first_step(d_json)} :
          IF first.exc # "None"
          THEN /\ walk' = first.exc
               /\ UNCHANGED <<walk_step, visited, history>>
          ELSE IF first.value = PyNone
          THEN /\ walk' = "done"
               /\ UNCHANGED <<walk_step, visited, history>>
          ELSE /\ walk' = "walking"
               /\ walk_step' = first.value
               /\ visited' = <<d_json["first-step"]>>
               /\ history' = PreprintEvents(first.value, FALSE)
    /\ UNCHANGED <<first_step, preprint>>
    /\ UNCHANGED tree_vars
    /\ UNCHANGED batch_vars
    /\ UNCHANGED docmap_vars
    /\ UNCHANGED parse_vars

\* next_step gives a step whose id has not been yielded: the walk yields it
WalkNext ==
    /\ walk = "walking"
    /\ next_step(d_json, walk_step) # PyNone
    /\ \A p \in DOMAIN visited : visited[p] # walk_step["next-step"]
    /\ walk_step' = next_step(d_json, walk_step)
    /\ visited' = Append(visited, walk_step["next-step"])
    /\ history' = history \o PreprintEvents(next_step(d_json, walk_step), history # <<>>)
    /\ UNCHANGED <<first_step, preprint, walk>>
    /\ UNCHANGED tree_vars
    /\ UNCHANGED batch_vars
    /\ UNCHANGED docmap_vars
    /\ UNCHANGED parse_vars

\* the walk without its guard: it goes on to the step whose id recurs
WalkCycle_no_guard ==
    /\ walk = "walking"
    /\ next_step(d_json, walk_step) # PyNone
    /\ \E p \in DOMAIN visited : visited[p] = walk_step["next-step"]
    /\ walk_step' = next_step(d_json, walk_step)
    /\ UNCHANGED <<first_step, preprint, walk, visited, history>>
    /\ UNCHANGED tree_vars
    /\ UNCHANGED batch_vars
    /\ UNCHANGED docmap_vars
    /\ UNCHANGED parse_vars

\* the id of the next step recurs: CycleError
WalkCycle ==
    /\ walk = "walking"
    /\ next_step(d_json, walk_step) # PyNone
    /\ \E p \in DOMAIN visited : visited[p] = walk_step["next-step"]
    /\ walk' = "CycleError"
    /\ UNCHANGED <<first_step, preprint, walk_step, visited, history>>
    /\ UNCHANGED tree_vars
    /\ UNCHANGED batch_vars
    /\ UNCHANGED docmap_vars
    /\ UNCHANGED parse_vars

\* next_step gives None: the walk is over
WalkEnd ==
    /\ walk = "walking"
    /\ next_step(d_json, walk_step) = PyNone
    /\ walk' = "done"
    /\ UNCHANGED <<first_step, preprint, walk_step, visited, history>>
    /\ UNCHANGED tree_vars
    /\ UNCHANGED batch_vars
    /\ UNCHANGED docmap_vars
    /\ UNCHANGED parse_vars

NextWalk == WalkStart \/ WalkNext \/ WalkCycle \/ WalkEnd

SpecWalk == InitWalk /\ [][NextWalk]_vars

\* the consumer of the walk keeps asking for the next step
SpecWalkFair == SpecWalk /\ WF_vars(NextWalk)

(***************************************************************************)
(* html_string_to_element, one action per statement that can leave it.     *)
(***************************************************************************)
\* string = bytes_string.decode("utf-8")
DecodeString ==
    /\ pc = "decode"
    /\ IF DecodeFails(bytes_string)
       THEN pc' = "raised" /\ outcome' = <<Raised("UnicodeDecodeError")>>
       ELSE pc' = "strict" /\ outcome' = outcome
    /\ UNCHANGED <<bytes_string, attempts>>
    /\ UNCHANGED tree_vars
    /\ UNCHANGED batch_vars
    /\ UNCHANGED docmap_vars
    /\ UNCHANGED steps_vars

\* the first attempt on the repaired string
ParseStrict_repaired ==
    /\ pc = "strict"
    /\ \E string \in {repair(Wrap(bytes_string))} :
        \E parse \in {fromstring(string)} :
            /\ attempts' = Append(attempts, string)
            /\ IF parse.ok
               THEN /\ pc' = "returned"
                    /\ outcome' = <<[exc |-> "None", root |-> parse.root]>>
               ELSE pc' = "except" /\ outcome' = outcome
    /\ UNCHANGED bytes_string
    /\ UNCHANGED tree_vars
    /\ UNCHANGED batch_vars
    /\ UNCHANGED docmap_vars
    /\ UNCHANGED steps_vars

\* string = "<root>%s</root>" % string; try: root = ElementTree.fromstring(string)
ParseStrict ==
    /\ pc = "strict"
    /\ \E string \in {Wrap(bytes_string)} :
        \E parse \in {fromstring(string)} :
            /\ attempts' = Append(attempts, string)
            /\ IF parse.ok
               THEN /\ pc' = "returned"
                    /\ outcome' = <<[exc |-> "None", root |-> parse.root]>>
               ELSE pc' = "except" /\ outcome' = outcome
    /\ UNCHANGED bytes_string
    /\ UNCHANGED tree_vars
    /\ UNCHANGED batch_vars
    /\ UNCHANGED docmap_vars
    /\ UNCHANGED steps_vars

\* except ParseError: root = ElementTree.fromstring(repair(string)); this
\* call stands in no try, so that its ParseError leaves the function
ParseRepaired ==
    /\ pc = "except"
    /\ \E string \in {repair(attempts[Len(attempts)])} :
        \E parse \in {fromstring(string)} :
            /\ attempts' = Append(attempts, string)
            /\ IF parse.ok
               THEN /\ pc' = "returned"
                    /\ outcome' = <<[exc |-> "None", root |-> parse.root]>>
               ELSE pc' = "raised" /\ outcome' = <<Raised("ParseError")>>
    /\ UNCHANGED bytes_string
    /\ UNCHANGED tree_vars
    /\ UNCHANGED batch_vars
    /\ UNCHANGED docmap_vars
    /\ UNCHANGED steps_vars

NextParse == DecodeString \/ ParseStrict \/ ParseRepaired

SpecParse == InitParse /\ [][NextParse]_vars

(***************************************************************************)
(* Claims about html_to_xml.                                               *)
(***************************************************************************)
TagsOf(kids) == [p \in DOMAIN kids |-> kids[p].tag]

IdsOf(kids) == [p \in DOMAIN kids |-> kids[p].id]

\* the element of the tree that is the object id (one exists)
ById(tree, id) ==
    LET all == Descendants(tree)
    IN  all[Min({p \in DOMAIN all : all[p].id = id})]

\* the tree holds the object id
Holds(tree, id) == \E p \in DOMAIN Descendants(tree) : Descendants(tree)[p].id = id

\* the input is plain HTML: no element carries a name the passes create
PlainHtml(tree) ==
    \A p \in DOMAIN Descendants(tree) :
        Descendants(tree)[p].tag \notin {"body", "front-stub", "title-group"}

\* C1 (as claimed): after html_to_xml the root's children are at most one
\* front-stub followed by exactly one body, the last child; a front-stub
\* never comes after the body.  Stated for the inputs that are plain HTML,
\* the promoted title paragraph being any top-level child.
C1_FinalShape ==
    (passes = Len(Passes) /\ PlainHtml(parsed))
        => TagsOf(root.kids) \in {<<"body">>, <<"front-stub", "body">>}

\* a root whose only child is a body element
TargetShaped(tree) == TagsOf(tree.kids) = <<"body">>

\* C2 (as claimed): html_to_xml on a tree whose root has a body as its only
\* child leaves the root with exactly that body child, with the same children
\* in the same order, and adds no body and no front-stub.
C2_TargetShapedNoOp ==
    (passes = Len(Passes) /\ TargetShaped(parsed))
        => /\ IdsOf(root.kids) = IdsOf(parsed.kids)
           /\ TagsOf(root.kids) = <<"body">>
           /\ IdsOf(root.kids[1].kids) = IdsOf(parsed.kids[1].kids)

\* the top-level child p of the tree blockquote_tags is given is merged into
\* the element before it: a blockquote that follows a blockquote or a disp-quote
IsMerged(kids, p) ==
    /\ kids[p].tag = "blockquote"
    /\ p > 1
    /\ kids[p - 1].tag \in {"blockquote", "disp-quote"}

\* the position, among the children that remain, of a child that remains
PosAfter(kids, p) == Cardinality({q \in 1..p : ~IsMerged(kids, q)})

\* a..b is a maximal run of at least two consecutive top-level blockquotes
\* that no disp-quote immediately precedes
IsRun(kids, a, b) ==
    /\ a < b
    /\ \A q \in a..b : kids[q].tag = "blockquote"
    /\ a > 1 => kids[a - 1].tag \notin {"blockquote", "disp-quote"}
    /\ b < Len(kids) => kids[b + 1].tag # "blockquote"

Runs(kids) == {r \in (DOMAIN kids) \X (DOMAIN kids) : IsRun(kids, r[1], r[2])}

\* C3: blockquote_tags turns every maximal run of N >= 2 consecutive
\* top-level blockquotes that no disp-quote precedes into one disp-quote with
\* content-type editor-comment, whose children are the children of the N
\* blockquotes, concatenated in order; no blockquote of the run remains at the
\* top level, and different runs give different disp-quote elements.
C3_RunsMerge ==
    passes = 2 =>
        /\ \A r \in Runs(before.kids) :
              LET a  == r[1]
                  b  == r[2]
                  dq == root.kids[PosAfter(before.kids, a)]
              IN  /\ dq.id = before.kids[a].id
                  /\ dq.tag = "disp-quote"
                  /\ HasAttr(dq, "content-type")
                  /\ dq.attrib["content-type"] = "editor-comment"
                  /\ dq.kids = Concat([q \in 1..(b - a + 1) |-> before.kids[a + q - 1].kids])
                  /\ \A q \in (a + 1)..b : PosOfId(root.kids, before.kids[q].id) = 0
        /\ \A p \in DOMAIN root.kids : root.kids[p].tag # "blockquote"
        /\ \A r1, r2 \in Runs(before.kids) :
              r1 # r2 => PosAfter(before.kids, r1[1]) # PosAfter(before.kids, r2[1])

\* two runs a non-blockquote separates have been merged, the blockquotes of
\* one run having children in two of its blockquotes
C3_Witness ==
    /\ passes = 2
    /\ Cardinality(Runs(before.kids)) >= 2
    /\ \E r \in Runs(before.kids) :
          /\ before.kids[r[1]].kids # <<>>
          /\ before.kids[r[2]].kids # <<>>
          /\ Len(root.kids[PosAfter(before.kids, r[1])].kids) >= 2

RECURSIVE Untagged(_)
\* the tree without its tags: what a rename leaves as it was
Untagged(elem) ==
    [elem EXCEPT !.tag = "",
                 !.kids = [p \in DOMAIN elem.kids |-> Untagged(elem.kids[p])]]

\* the elements whose tag differs between two trees of the same shape
Renamed(old, new) ==
    {Descendants(old)[p].id : p \in {q \in DOMAIN Descendants(old) :
                                       Descendants(old)[q].tag # Descendants(new)[q].tag}}

\* a paragraph without leading text whose first child is bold
IsTitle(elem) ==
    /\ elem.tag = "p"
    /\ elem.text = NoText
    /\ elem.kids # <<>>
    /\ elem.kids[1].tag = "bold"

\* C4 (as claimed): article_title_tag inspects the first top-level child
\* only: a paragraph is renamed title-group, and its bold child
\* article-title, if and only if it is the first top-level child, has no
\* leading text and has a bold first child; otherwise nothing is renamed.
C4_FirstChildOnly ==
    passes = 3 =>
        IF before.kids # <<>> /\ IsTitle(before.kids[1])
        THEN Renamed(before, root) = {before.kids[1].id, before.kids[1].kids[1].id}
        ELSE Renamed(before, root) = {}

\* the first top-level paragraph, 0 when there is none
FirstParagraph(kids) ==
    IF \E p \in DOMAIN kids : kids[p].tag = "p"
    THEN CHOOSE p \in DOMAIN kids :
            kids[p].tag = "p" /\ \A q \in 1..(p - 1) : kids[q].tag # "p"
    ELSE 0

\* <root><front-stub><title-group><article-title>T</article-title>
\* </title-group></front-stub><body /></root>
TitleOnlyXml ==
    Wrap(Markup("front-stub", NoAttrib, NoText,
                <<Markup("title-group", NoAttrib, NoText,
                         <<Markup("article-title", NoAttrib, <<"T">>, <<>>, NoText)>>,
                         NoText)>>,
                NoText)
         \o <<EmptyTag("body", NoAttrib)>>)

\* C4 (amended): article_title_tag inspects the first top-level p element
\* only, whatever precedes it: that paragraph is renamed title-group, and
\* its first child article-title, if and only if it has no leading text and
\* its first child is bold; no other element is renamed and nothing but tags
\* changes.  <p><strong>T</strong></p> converts to front-stub > title-group >
\* article-title followed by an empty body.
C4_FirstParagraphOnly ==
    /\ passes = 3 =>
          LET first == FirstParagraph(before.kids)
          IN  /\ Untagged(root) = Untagged(before)
              /\ IF first # 0 /\ IsTitle(before.kids[first])
                 THEN /\ Renamed(before, root) =
                            {before.kids[first].id, before.kids[first].kids[1].id}
                      /\ root.kids[first].tag = "title-group"
                      /\ root.kids[first].kids[1].tag = "article-title"
                 ELSE Renamed(before, root) = {}
    /\ (passes = Len(Passes)
        /\ parsed = TreeOf(<<Markup("p", NoAttrib, NoText,
                                    <<Markup("strong", NoAttrib, <<"T">>, <<>>, NoText)>>,
                                    NoText)>>))
          => tostring(root) = TitleOnlyXml

\* a paragraph that another element precedes has been promoted
C4_Witness ==
    /\ passes = 3
    /\ Len(before.kids) >= 2
    /\ before.kids[1].tag # "p"
    /\ IsTitle(before.kids[2])
    /\ root.kids[2].tag = "title-group"

\* C5 (as claimed): after replace_tags every element that was an a is an
\* ext-link; if it carried an href, whatever its value, the empty string
\* included, it has ext-link-type uri, an xlink:href equal to the old href
\* and no href; if it carried none, it is renamed only.
C5_LinksConverted ==
    passes = 1 =>
        \A p \in DOMAIN Descendants(before) :
            LET old == Descendants(before)[p]
                new == ById(root, old.id)
            IN  old.tag = "a" =>
                    /\ Holds(root, old.id)
                    /\ new.tag = "ext-link"
                    /\ IF HasAttr(old, "href")
                       THEN /\ HasAttr(new, "ext-link-type")
                            /\ new.attrib["ext-link-type"] = "uri"
                            /\ HasAttr(new, XlinkHref)
                            /\ new.attrib[XlinkHref] = old.attrib["href"]
                            /\ ~HasAttr(new, "href")
                       ELSE new.attrib = old.attrib

\* the elements of the tree, the root first
Elements(tree) == <<tree>> \o Descendants(tree)

HasImgChild(elem) == \E p \in DOMAIN elem.kids : elem.kids[p].tag = "img"

\* C17 (as claimed): after replace_tags no img element is left in the
\* tree: every img child of every element, the root included, is deleted.
C17_NoImgRemains ==
    passes = 1 =>
        \A p \in DOMAIN Elements(root) : ~HasImgChild(Elements(root)[p])

RECURSIVE StripLeading(_)
\* the text without its leading white space
StripLeading(text) ==
    IF text = <<>> THEN <<>>
    ELSE IF Head(text) \in {" ", "\n", "\t"} THEN StripLeading(Tail(text))
    ELSE text

\* the element of the tree with the id, the root included
ElementById(tree, id) == IF id = tree.id THEN tree ELSE ById(tree, id)

\* C18: after replace_tags the text of every element that had an img child
\* is "[image]" if it had no text, and else "[image]", one space and its
\* text without leading white space; the placeholder is there once however
\* many img children the element had; the text of an element that had no
\* img child is as it was.
C18_PlaceholderText ==
    passes = 1 =>
        \A p \in DOMAIN Elements(before) :
            LET old == Elements(before)[p]
                new == ElementById(root, old.id)
            IN  (old.id = root.id \/ Holds(root, old.id)) =>
                    new.text =
                        IF ~HasImgChild(old) THEN old.text
                        ELSE IF old.text = <<>> THEN <<"[", "i", "m", "a", "g", "e", "]">>
                        ELSE <<"[", "i", "m", "a", "g", "e", "]", " ">>
                                \o StripLeading(old.text)

\* replace_tags has run on a tree with a paragraph whose text began with
\* white space and had an img child, and a paragraph with two img children
C18_Witness ==
    /\ passes = 1
    /\ Len(before.kids) = 2
    /\ before.kids[1].text = <<" ", "t">> /\ HasImgChild(before.kids[1])
    /\ root.kids[1].text = <<"[", "i", "m", "a", "g", "e", "]", " ", "t">>
    /\ Len(before.kids[2].kids) = 2 /\ before.kids[2].kids[2].tag = "img"
    /\ root.kids[2].text = <<"[", "i", "m", "a", "g", "e", "]">>

\* the name an HTML tag has after replace_tags
NewTag(tag) ==
    CASE tag = "em" -> "italic"
      [] tag = "strong" -> "bold"
      [] tag = "a" -> "ext-link"
      [] tag = "li" -> "list-item"
      [] tag \in {"ol", "ul"} -> "list"
      [] OTHER -> tag

RECURSIVE Skeleton(_)
\* the element without its names: its identity, text, tail and children
Skeleton(elem) ==
    [id |-> elem.id, text |-> elem.text, tail |-> elem.tail,
     kids |-> [p \in DOMAIN elem.kids |-> Skeleton(elem.kids[p])]]

NoImg(tree) ==
    \A p \in DOMAIN Descendants(tree) : Descendants(tree)[p].tag # "img"

\* C21: after replace_tags no descendant of the root has the tag em, strong,
\* a, li, ol or ul; where no img is in the tree, the elements, their
\* nesting, order, text and tails are as before, each em is italic, each
\* strong bold, each li list-item, each ol a list with list-type "order"
\* and each ul a list with list-type "bullet", and the other elements keep
\* their names.
C21_TagsRenamed ==
    passes = 1 =>
        /\ \A p \in DOMAIN Descendants(root) :
               Descendants(root)[p].tag \notin {"em", "strong", "a", "li", "ol", "ul"}
        /\ NoImg(before) =>
               /\ Skeleton(root) = Skeleton(before)
               /\ \A p \in DOMAIN Descendants(before) :
                      LET old == Descendants(before)[p]
                          new == Descendants(root)[p]
                      IN  /\ new.tag = NewTag(old.tag)
                          /\ old.tag = "ol" =>
                                 /\ HasAttr(new, "list-type")
                                 /\ new.attrib["list-type"] = "order"
                          /\ old.tag = "ul" =>
                                 /\ HasAttr(new, "list-type")
                                 /\ new.attrib["list-type"] = "bullet"
                          /\ old.tag \notin {"a", "ol", "ul"} =>
                                 new.attrib = old.attrib

\* replace_tags has run on a bullet list in whose item stands an ordered
\* list, followed by a paragraph with a link and a strong in an em
C21_Witness ==
    /\ passes = 1
    /\ TagsOf(before.kids) = <<"ul", "p">>
    /\ TagsOf(Descendants(before)) =
           <<"ul", "li", "ol", "li", "p", "a", "em", "strong">>
    /\ TagsOf(Descendants(root)) =
           <<"list", "list-item", "list", "list-item", "p", "ext-link", "italic", "bold">>
    /\ root.kids[1].attrib["list-type"] = "bullet"
    /\ root.kids[1].kids[1].kids[1].attrib["list-type"] = "order"
    /\ root.kids[1].kids[1].kids[1].tail = <<"c">>

\* the top-level children body_tag leaves where they are
Stays(elem) == elem.tag \in {"body", "front-stub"}

Moves(elem) == ~Stays(elem)

\* C22 (as claimed): body_tag puts the new body immediately after the
\* front-stub when the root has one, and first otherwise; the body's
\* children are the top-level children that are neither body nor
\* front-stub, in their order and with their subtrees and tails; the other
\* top-level children stay, in their order, and none is lost or duplicated.
C22_BodyAfterFrontStub ==
    passes = Len(Passes) =>
        LET stub == Find(before.kids, "front-stub")
            body == PosOfId(root.kids, BodyId)
        IN  /\ body # 0
            /\ IF stub # 0
               THEN body > 1 /\ root.kids[body - 1] = before.kids[stub]
               ELSE body = 1
            /\ root.kids[body].tag = "body"
            /\ root.kids[body].kids = SelectSeq(before.kids, Moves)
            /\ RemoveAt(root.kids, body) = SelectSeq(before.kids, Stays)

\* the children of the top-level elements, in document order
Grandchildren(tree) == Concat([p \in DOMAIN tree.kids |-> tree.kids[p].kids])

\* C23: blockquote_tags changes top-level children only: the children of
\* the top-level elements are after it the same elements in the same order,
\* each with its subtree, text and tail, so that a blockquote below the top
\* level is still a blockquote.  Of a blockquote that is merged into the
\* element before it nothing but its children goes on: the element itself
\* is in the tree no more, and the root and every top-level element that
\* remains keep their own text and tail, the merged blockquote's text and
\* tail being added to none.
C23_TopLevelOnly ==
    passes = 2 =>
        /\ Grandchildren(root) = Grandchildren(before)
        /\ root.text = before.text
        /\ root.tail = before.tail
        /\ \A p \in DOMAIN before.kids :
               IF IsMerged(before.kids, p)
               THEN ~Holds(root, before.kids[p].id)
               ELSE LET new == root.kids[PosAfter(before.kids, p)]
                    IN  /\ new.id = before.kids[p].id
                        /\ new.text = before.kids[p].text
                        /\ new.tail = before.kids[p].tail
        /\ Len(root.kids) =
               Cardinality({p \in DOMAIN before.kids : ~IsMerged(before.kids, p)})

\* a blockquote with text, a tail and a blockquote among its children has
\* been merged into the blockquote before it, which had a child of its own
C23_Witness ==
    /\ passes = 2
    /\ Len(before.kids) = 2
    /\ before.kids[1].tag = "blockquote" /\ Len(before.kids[1].kids) = 1
    /\ before.kids[2].tag = "blockquote"
    /\ before.kids[2].text = <<"q">> /\ before.kids[2].tail = <<"u">>
    /\ TagsOf(before.kids[2].kids) = <<"p", "blockquote">>
    /\ Len(root.kids) = 1
    /\ TagsOf(root.kids[1].kids) = <<"p", "p", "blockquote">>
    /\ root.kids[1].text = NoText /\ root.kids[1].tail = NoText

\* C19: html_string_to_element passes at most two strings to the parser:
\* the first is the wrapped text as given; a second one follows only a
\* failed first parse and is the repaired first; a text that parses as
\* given returns its own tree after one attempt; ParseError leaves the
\* call only after both attempts failed, and nothing is parsed after that.
C19_AtMostTwoAttempts ==
    LET n      == Len(attempts)
        strict == fromstring(Wrap(bytes_string))
    IN  /\ n <= 2
        /\ pc = "decode" => n = 0
        /\ pc = "strict" => n = 0
        /\ pc = "except" => n = 1
        /\ n >= 1 => attempts[1] = Wrap(bytes_string)
        /\ n = 2 => ~strict.ok /\ attempts[2] = repair(attempts[1])
        /\ (pc = "returned" /\ strict.ok)
               => n = 1 /\ outcome = <<[exc |-> "None", root |-> strict.root]>>
        /\ (pc = "returned" /\ ~strict.ok)
               => /\ n = 2
                  /\ fromstring(attempts[2]).ok
                  /\ outcome = <<[exc |-> "None", root |-> fromstring(attempts[2]).root]>>
        /\ (pc = "raised" /\ outcome = <<Raised("ParseError")>>)
               => n = 2 /\ ~strict.ok /\ ~fromstring(attempts[2]).ok
        /\ pc = "raised"
               => \/ outcome = <<Raised("ParseError")>>
                  \/ outcome = <<Raised("UnicodeDecodeError")>> /\ n = 0
        /\ pc \in {"returned", "raised"}
               => outcome = <<html_string_to_element(bytes_string)>>

\* a text with a br without close slash was returned after the second attempt
C19_Witness ==
    /\ pc = "returned"
    /\ Len(attempts) = 2
    /\ attempts[2] # attempts[1]
    /\ \E p \in DOMAIN bytes_string : bytes_string[p] = StartTag("br", NoAttrib)

\* the five tokens at i are <a><b>c</a></b>: a pair closed out of order
InvertedAt(string, i, a, b) ==
    /\ i + 4 <= Len(string)
    /\ string[i] = StartTag(a, NoAttrib)
    /\ string[i + 1] = StartTag(b, NoAttrib)
    /\ string[i + 2].k = "char"
    /\ string[i + 3] = EndTag(a)
    /\ string[i + 4] = EndTag(b)

\* the five tokens at i are <a><b>c</b></a>: a pair closed in order
NestedAt(string, i, a, b) ==
    /\ i + 4 <= Len(string)
    /\ string[i] = StartTag(a, NoAttrib)
    /\ string[i + 1] = StartTag(b, NoAttrib)
    /\ string[i + 2].k = "char"
    /\ string[i + 3] = EndTag(b)
    /\ string[i + 4] = EndTag(a)

EmStrong == {<<"em", "strong">>, <<"strong", "em">>}

\* C20 (as claimed): in the text repair returns no em/strong pair is closed
\* out of order, of either shape, and every pair that was closed in order
\* in the text it was given is still closed in order.
C20_NoInvertedPairRemains ==
    Len(attempts) = 2 =>
        \A i \in DOMAIN attempts[2] : \A ab \in EmStrong :
            /\ ~InvertedAt(attempts[2], i, ab[1], ab[2])
            /\ NestedAt(attempts[1], i, ab[1], ab[2])
                   => \E cd \in EmStrong : NestedAt(attempts[2], i, cd[1], cd[2])

(***************************************************************************)
(* Claims about populate_docmap_content and transform_docmap_content.      *)
(***************************************************************************)
HasHtml(content_item) == Truthy(Get(content_item, "html"))

\* the item's html converts
Valid(content_item) ==
    /\ HasHtml(content_item)
    /\ html_string_to_element(content_item["html"].v).exc = "None"

\* the item's html is text that the parser rejects, repaired too
Unparseable(content_item) ==
    /\ HasHtml(content_item)
    /\ ~DecodeFails(content_item["html"].v)
    /\ ~fromstring(Wrap(content_item["html"].v)).ok
    /\ ~fromstring(repair(Wrap(content_item["html"].v))).ok

\* the item's html is not UTF-8
Undecodable(content_item) ==
    /\ HasHtml(content_item)
    /\ DecodeFails(content_item["html"].v)

XmlSet(content_item) ==
    /\ "xml" \in DOMAIN content_item
    /\ content_item["xml"].t = "bytes"

\* transform_docmap_content is running or has ended
InTransform ==
    \/ call = "transform"
    \/ call = "returned"
    \/ (call = "raised" /\ raised_in = "transform")

\* the loop of transform_docmap_content is past the item
Processed(k) == InTransform /\ (call = "returned" \/ k < idx)

\* the number of records of the log with the message
RECURSIVE CountMsg(_, _)
CountMsg(records, msg) ==
    IF records = <<>> THEN 0
    ELSE (IF Head(records).msg = msg THEN 1 ELSE 0) + CountMsg(Tail(records), msg)

\* C6: in transform_docmap_content an item whose html is unparseable after
\* repair never ends the call (the call raises at no such item, only at an
\* item whose bytes are not text), its xml stays unset, and its failure is
\* recorded, one record for each such item the loop has passed; every item
\* with valid html that the loop has passed, before or after an unparseable
\* one, has its xml set, so that all of them have when the call has returned.
C6_ParseFailureContained ==
    InTransform =>
        /\ \A k \in DOMAIN content_json :
              /\ Unparseable(content_json[k]) =>
                    /\ "xml" \notin DOMAIN content_json[k]
                    /\ ~(call = "raised" /\ idx = k)
              /\ (Valid(content_json[k]) /\ Processed(k)) => XmlSet(content_json[k])
        /\ call = "raised" => Undecodable(content_json[idx])
        /\ CountMsg(log, "Failed to convert HTML to XML") =
              Cardinality({k \in DOMAIN content_json :
                              Processed(k) /\ Unparseable(content_json[k])})

\* the call has returned from a batch with an unparseable item between two
\* valid ones: both have their xml, the unparseable one has none
C6_Witness ==
    /\ call = "returned"
    /\ Len(content_json) = 3
    /\ Valid(content_json[1]) /\ XmlSet(content_json[1])
    /\ Unparseable(content_json[2]) /\ "xml" \notin DOMAIN content_json[2]
    /\ Valid(content_json[3]) /\ XmlSet(content_json[3])

\* C7 (as claimed): whatever the failure of an item's conversion, bytes that
\* are not UTF-8 as well as malformed markup, once transform_docmap_content
\* has ended every item of the batch with valid html has its xml set.
C7_FailuresIsolated ==
    (InTransform /\ call \in {"returned", "raised"}) =>
        \A k \in DOMAIN content_json :
            Valid(content_json[k]) => XmlSet(content_json[k])

\* C8 (as claimed): an exception that leaves populate_docmap_content or
\* transform_docmap_content was recorded first, the last record of the log
\* being an error record; no item whose conversion raised another exception
\* than a parse failure is passed over; and the items before the one at
\* which the call raised keep the html and xml they were given.
C8_RecordedThenPropagated ==
    /\ call = "raised" =>
          /\ exc # "None"
          /\ log # <<>>
          /\ log[Len(log)].level = "ERROR"
          /\ \A k \in 1 .. (idx - 1) :
                /\ Truthy(Get(content_json[k], "web-content")) =>
                      "html" \in DOMAIN content_json[k]
                /\ (raised_in = "transform" /\ Valid(content_json[k])) =>
                      XmlSet(content_json[k])
    /\ \A k \in DOMAIN content_json :
          Processed(k) => ~Undecodable(content_json[k])

\* the list is past populate_docmap_content's loop at the item
Populated(k) ==
    IF call = "populate" \/ (call = "raised" /\ raised_in = "populate")
    THEN k < idx ELSE TRUE

HasUrl(content_item) == Truthy(Get(content_item, "web-content"))

\* C16: every fetch is for an item with a web-content URL, one fetch for
\* each such item the loop of populate_docmap_content has reached and in
\* their order; the item's html is the response's content when the status
\* code is 200 and None for every other status code, for which nothing is
\* raised; an item without URL is never fetched and gets no html key; and
\* transform_docmap_content leaves xml unset for an item whose html is
\* absent or None, and never raises at such an item.
C16_FetchContract ==
    /\ \A f \in DOMAIN fetched :
          LET k == fetched[f].item
              response == fetched[f].response
          IN  /\ HasUrl(content_json[k])
              /\ \A g \in DOMAIN fetched : (g < f) => (fetched[g].item < k)
              /\ "exc" \notin DOMAIN response =>
                    /\ "html" \in DOMAIN content_json[k]
                    /\ (response.status_code = 200) =
                          (content_json[k]["html"] = response.content)
                    /\ (response.status_code # 200) =
                          (content_json[k]["html"] = PyNone)
                    /\ ~(call = "raised" /\ raised_in = "populate" /\ idx = k)
    /\ \A k \in DOMAIN content_json :
          /\ (HasUrl(content_json[k]) /\ Populated(k)) =>
                \E f \in DOMAIN fetched : fetched[f].item = k
          /\ ~HasUrl(content_json[k]) => "html" \notin DOMAIN content_json[k]
          /\ ~HasHtml(content_json[k]) =>
                /\ "xml" \notin DOMAIN content_json[k]
                /\ ~(call = "raised" /\ raised_in = "transform" /\ idx = k)

\* both calls have returned: the first item's fetch gave a status code other
\* than 200, the second item has no URL, the third was fetched and converted
C16_Witness ==
    /\ call = "returned"
    /\ Len(content_json) = 3
    /\ Len(fetched) = 2
    /\ fetched[1].item = 1 /\ fetched[1].response.status_code = 404
    /\ "html" \in DOMAIN content_json[1] /\ content_json[1]["html"] = PyNone
    /\ "xml" \notin DOMAIN content_json[1]
    /\ ~HasUrl(content_json[2]) /\ "html" \notin DOMAIN content_json[2]
    /\ fetched[2].item = 3 /\ fetched[2].response.status_code = 200
    /\ XmlSet(content_json[3])

(***************************************************************************)
(* Claims about docmap_content.                                            *)
(***************************************************************************)
\* the actions of the first step of the docmap
FirstStepActions == d_json["steps"][d_json["first-step"]]["actions"]

\* the content entries of the output whose type is web-content, in order
WebContentEntries(output_json) ==
    LET contents == GetList(output_json, "content")
        RECURSIVE Keep(_)
        Keep(p) == IF p > Len(contents) THEN <<>>
                   ELSE (IF "type" \in DOMAIN contents[p]
                            /\ contents[p]["type"] = Str("web-content")
                         THEN <<contents[p]>> ELSE <<>>) \o Keep(p + 1)
    IN  Keep(1)

EveryActionHasOutput ==
    \A a \in DOMAIN FirstStepActions : Len(FirstStepActions[a]["outputs"]) >= 1

\* C9: when every action of the first step has an output, docmap_content
\* returns one item for each action of the first step and no more, in the
\* order of the actions; the item has the type and the published value of
\* the action's first output (None when absent) and as web-content the url
\* of its first web-content entry, None when it has no such entry (an entry
\* without url is the subject of C10).  The other step contributes nothing.
C9_FirstStepInOrder ==
    (content # <<>> /\ EveryActionHasOutput) =>
        /\ content[1].exc = "None"
        /\ Len(content[1].value) = Len(FirstStepActions)
        /\ \A a \in DOMAIN FirstStepActions :
              LET first == FirstStepActions[a]["outputs"][1]
                  item == content[1].value[a]
                  entries == WebContentEntries(first)
              IN  /\ DOMAIN item = {"type", "published", "web-content"}
                  /\ item["type"] = Get(first, "type")
                  /\ item["published"] = Get(first, "published")
                  /\ entries = <<>> => item["web-content"] = PyNone
                  /\ (entries # <<>> /\ "url" \in DOMAIN entries[1]) =>
                        item["web-content"] = entries[1]["url"]

\* two actions with different first outputs, the first action with a later
\* output too: two items, in the order of the actions
C9_Witness ==
    /\ content # <<>>
    /\ EveryActionHasOutput
    /\ Len(FirstStepActions) = 2
    /\ Len(FirstStepActions[1]["outputs"]) = 2
    /\ content[1].exc = "None"
    /\ content[1].value[1]["web-content"] = Str("https://x/2")
    /\ content[1].value[2]["web-content"] = Str("https://x/1")

\* C10 (as claimed): the web-content of every item is None or the url of a
\* web-content entry of the output: the url of the first web-content entry,
\* and None when the output has no content, no web-content entry, or no
\* web-content entry with a url.
C10_WebContentUrlOrNull ==
    (content # <<>> /\ content[1].exc = "None") =>
        \A a \in DOMAIN content[1].value :
            LET first == FirstStepActions[a]["outputs"][1]
                value == content[1].value[a]["web-content"]
                entries == WebContentEntries(first)
                NoUrl == \A e \in DOMAIN entries : "url" \notin DOMAIN entries[e]
            IN  /\ \/ value = PyNone
                   \/ \E e \in DOMAIN entries :
                         "url" \in DOMAIN entries[e] /\ value = entries[e]["url"]
                /\ NoUrl => value = PyNone
                /\ (entries # <<>> /\ "url" \in DOMAIN entries[1]) =>
                      value = entries[1]["url"]

\* C11: whenever an action of the first step has no outputs, whatever its
\* position among the actions, docmap_content ends with an exception (the
\* IndexError of outputs[0]) and returns no list, neither partial nor
\* shortened.
C11_ZeroOutputsRaises ==
    (content # <<>>
        /\ \E a \in DOMAIN FirstStepActions : FirstStepActions[a]["outputs"] = <<>>) =>
        /\ content[1].exc = "IndexError"
        /\ "value" \notin DOMAIN content[1]

\* docmap_content has raised for a first action with outputs followed by an
\* action without
C11_Witness ==
    /\ content # <<>>
    /\ Len(FirstStepActions) = 2
    /\ Len(FirstStepActions[1]["outputs"]) >= 1
    /\ FirstStepActions[2]["outputs"] = <<>>
    /\ content[1].exc = "IndexError"

(***************************************************************************)
(* Claims about the step functions, the walk and the preprint history.     *)
(***************************************************************************)
\* the first-step of the docmap names one of its steps
FirstStepResolves ==
    /\ "steps" \in DOMAIN d_json
    /\ "first-step" \in DOMAIN d_json
    /\ d_json["first-step"] \in DOMAIN d_json["steps"]

\* C12 (as claimed): docmap_first_step returns steps[first-step] when the
\* id names a step, and ends with an error when the docmap has no
\* first-step or its id names no step; None is never its result.
C12_FirstStepOrError ==
    first_step # <<>> =>
        IF FirstStepResolves
        THEN first_step[1] = Returned(d_json["steps"][d_json["first-step"]])
        ELSE first_step[1].exc # "None"

\* C13 (as claimed): docmap_preprint of the docmap without keys returns an
\* empty mapping and raises nothing; of a docmap whose first step has
\* inputs it returns the first of them.
C13_PreprintOrEmpty ==
    preprint # <<>> =>
        /\ DOMAIN d_json = {} => preprint[1] = Returned(EmptyDocmap)
        /\ (FirstStepResolves
              /\ "inputs" \in DOMAIN d_json["steps"][d_json["first-step"]]
              /\ d_json["steps"][d_json["first-step"]]["inputs"] # <<>>) =>
                 preprint[1] =
                    Returned(d_json["steps"][d_json["first-step"]]["inputs"][1])

RECURSIVE ChainFrom(_, _)
\* the ids of the chain that begins with ids, up to the step without a
\* next-step that names a step, or up to the step whose next-step recurs
ChainFrom(steps, ids) ==
    LET last == steps[ids[Len(ids)]]
    IN  IF "next-step" \notin DOMAIN last \/ last["next-step"] \notin DOMAIN steps
        THEN [ids |-> ids, cycle |-> FALSE]
        ELSE IF \E p \in DOMAIN ids : ids[p] = last["next-step"]
        THEN [ids |-> ids, cycle |-> TRUE]
        ELSE ChainFrom(steps, Append(ids, last["next-step"]))

\* the chain of the docmap from its first step
Chain ==
    IF FirstStepResolves THEN ChainFrom(d_json["steps"], <<d_json["first-step"]>>)
    ELSE [ids |-> <<>>, cycle |-> FALSE]

WalkOver == walk \notin {"start", "walking"}

\* C14: the walk from the first step by next_step ends: the steps it has
\* yielded are at any time the beginning of the chain, each once and in chain
\* order; it is over at the step without next-step, having yielded the whole
\* chain, and on a chain whose next-step names a step already yielded it
\* fails with CycleError at that step; and it is over eventually.
C14_WalkTerminates ==
    /\ [](/\ Len(visited) <= Len(Chain.ids)
          /\ \A p \in DOMAIN visited : visited[p] = Chain.ids[p]
          /\ \A p, q \in DOMAIN visited : visited[p] = visited[q] => p = q
          /\ walk = "walking" =>
                /\ visited # <<>>
                /\ walk_step = d_json["steps"][visited[Len(visited)]]
          /\ walk = "done" => (visited = Chain.ids /\ ~Chain.cycle)
          /\ walk = "CycleError" => (visited = Chain.ids /\ Chain.cycle))
    /\ <>WalkOver

\* the walk has failed with CycleError after more than one step
C14_Witness ==
    /\ walk = "CycleError"
    /\ Len(visited) >= 2
    /\ \E p \in DOMAIN visited : visited[p] = walk_step["next-step"]

\* the step has an assertion whose item.type is "preprint"
HasPreprintAssertion(step_json) ==
    \E p \in DOMAIN step_json["assertions"] :
        step_json["assertions"][p]["item"]["type"] = Str("preprint")

\* the ids among the first n yielded whose steps have a preprint assertion
PreprintSteps(n) ==
    {p \in 1 .. n : HasPreprintAssertion(d_json["steps"][visited[p]])}

\* C15: the history holds one event for every step yielded whose assertions
\* include a preprint item and none for the others, in the order of the
\* walk; its first event has type "preprint" and every later one
\* "reviewed-preprint"; when the walk is done every step of the chain has
\* been yielded.
C15_OneEventPerPreprintStep ==
    /\ Len(history) = Cardinality(PreprintSteps(Len(visited)))
    /\ \A p \in PreprintSteps(Len(visited)) :
          LET event == history[Cardinality(PreprintSteps(p))]
          IN  /\ event.doi = Str(visited[p])
              /\ event.type = IF Cardinality(PreprintSteps(p)) = 1
                              THEN Str("preprint") ELSE Str("reviewed-preprint")
    /\ walk = "done" => visited = Chain.ids

\* a walk of three steps is done; the first has no preprint assertion, the
\* other two have: a "preprint" event and a "reviewed-preprint" event
C15_Witness ==
    /\ walk = "done"
    /\ Len(visited) = 3
    /\ PreprintSteps(3) = {2, 3}
    /\ Len(history) = 2
    /\ history[1].type = Str("preprint")
    /\ history[2].type = Str("reviewed-preprint")

=============================================================================
